---- MODULE Spec2Model ----
(***************************************************************************)
(* Arbitrage scanner of the PumpSwap / Meteora DLMM monitoring bot.        *)
(*                                                                         *)
(* Numbers.  The program computes with JavaScript numbers; the model uses  *)
(* fixed-point integers with four fractional digits (FP == 10^4), so 0.1   *)
(* is 1000, 0.3 is 3000 and 0.005 is 50.  Raw ledger amounts are plain     *)
(* integers.  floor(x * 10^d) and r / 10^d are computed on that scale.     *)
(***************************************************************************)
EXTENDS Integers, Sequences, FiniteSets, TLC

\* ------------------------------------------------------------------ bounds
\* Number of iterations of a long-running loop that the model follows.
MaxScans == 2
\* Number of fetchPoolData calls the cache model follows.
MaxFetches == 3
\* CACHE_DURATION, the cache lifetime in clock ticks (60000 ms by default,
\* set by the environment): the model runs it with a short lifetime.
CACHE_DURATION == 2
\* Last clock value: late enough for a fetch at t0 + CACHE_DURATION + 1.
MaxTime == CACHE_DURATION + 1
\* Number of getTokenDecimals calls made from outside a quote.
MaxDecimalsCalls == 1
\* Bits in the significand of a number (53 in the program): the model
\* follows the rounding of a product with a short significand.
SignificandBits == 7
\* Number of price-function calls followed one after another.
MaxAdapterCalls == 2

\* ------------------------------------------------------- program constants
\* MIN_PROFIT_PCT = 0.3 (percent), fixed-point.
MIN_PROFIT_PCT == 3000
\* WSOL_TRADE_SIZE = 0.1, fixed-point.
WSOL_TRADE_SIZE == 1000

FP == 10 ^ 4

\* Slippage literals of the evaluator, fixed-point: 0.01 and 0.005.
PUMP_SLIPPAGE == 10 ^ 2
DLMM_SLIPPAGE == 5 * 10

PumpToDLMM == "PUMP-TO-DLMM"
DLMMToPump == "DLMM-TO-PUMP"
\* The array literal handed to Promise.allSettled, in order.
Dirs == <<PumpToDLMM, DLMMToPump>>
DirSet == {Dirs[i] : i \in 1..Len(Dirs)}
Other(d) == IF d = PumpToDLMM THEN DLMMToPump ELSE PumpToDLMM

\* ---------------------------------------------------------- environment
\* On-chain decimal precision of the two mints (ledger data, not code).
Decimals(mint) == IF mint = "BASE_MINT" THEN 5 ELSE 3

\* Raw outputs the venue SDKs may quote: target-token raw units when the
\* output mint is MINT, base raw units when it is BASE_MINT.
SdkRawOut(outMint) ==
  IF outMint = "MINT" THEN {25000, 26000} ELSE {9980, 10030, 10050}

\* ------------------------------------------------------ amount conversion
\* Math.floor(inputAmount * 10 ** decimals)
ToRaw(amount, decimals) == (amount * (10 ^ decimals)) \div FP
\* Number(raw) / 10 ** decimals
FromRaw(raw, decimals) == (raw * FP) \div (10 ^ decimals)

\* ------------------------------------------------------ quote adapters
\* Variant of getPumpSwapPriceFixed: the two directions' decimals exchanged.
getPumpSwapPriceFixedSwapped(inputAmount, slippage, direction) ==
  LET inMint  == IF direction = "baseToQuote" THEN "BASE_MINT" ELSE "MINT"
      outMint == IF direction = "baseToQuote" THEN "MINT" ELSE "BASE_MINT"
  IN [venue    |-> "pump",
      sdkFn    |-> IF direction = "baseToQuote"
                     THEN "swapAutocompleteQuoteFromBase"
                     ELSE "swapAutocompleteBaseFromQuote",
      tag      |-> direction,
      inMint   |-> inMint,
      outMint  |-> outMint,
      inAmount |-> inputAmount,
      rawIn    |-> ToRaw(inputAmount, Decimals(inMint)),
      slippage |-> slippage]

\* getPumpSwapPriceFixed: the SDK request built for an input and direction.
getPumpSwapPriceFixed(inputAmount, slippage, direction) ==
  LET inMint  == IF direction = "baseToQuote" THEN "MINT" ELSE "BASE_MINT"
      outMint == IF direction = "baseToQuote" THEN "BASE_MINT" ELSE "MINT"
  IN [venue    |-> "pump",
      sdkFn    |-> IF direction = "baseToQuote"
                     THEN "swapAutocompleteQuoteFromBase"
                     ELSE "swapAutocompleteBaseFromQuote",
      tag      |-> direction,
      inMint   |-> inMint,
      outMint  |-> outMint,
      inAmount |-> inputAmount,
      rawIn    |-> ToRaw(inputAmount, Decimals(inMint)),
      slippage |-> slippage]

\* getDLMMPrice: sell target token for base token (swapYtoX = false).
getDLMMPrice(inputAmount, slippage) ==
  [venue    |-> "dlmm",
   sdkFn    |-> "swapQuote",
   tag      |-> "XtoY",
   inMint   |-> "MINT",
   outMint  |-> "BASE_MINT",
   inAmount |-> inputAmount,
   rawIn    |-> ToRaw(inputAmount, Decimals("MINT")),
   slippage |-> (slippage * 100) \div FP]

\* Variant of getDLMMReversePrice: the fraction scaled to true basis points.
getDLMMReversePriceBps(inputAmount, slippage) ==
  [venue    |-> "dlmm",
   sdkFn    |-> "swapQuote",
   tag      |-> "YtoX",
   inMint   |-> "BASE_MINT",
   outMint  |-> "MINT",
   inAmount |-> inputAmount,
   rawIn    |-> ToRaw(inputAmount, Decimals("BASE_MINT")),
   slippage |-> (slippage * 10000) \div FP]

\* getDLMMReversePrice: buy target token with base token (swapYtoX = true).
getDLMMReversePrice(inputAmount, slippage) ==
  [venue    |-> "dlmm",
   sdkFn    |-> "swapQuote",
   tag      |-> "YtoX",
   inMint   |-> "BASE_MINT",
   outMint  |-> "MINT",
   inAmount |-> inputAmount,
   rawIn    |-> ToRaw(inputAmount, Decimals("BASE_MINT")),
   slippage |-> (slippage * 100) \div FP]

\* getPumpSwapQuote / getDLMMQuote of the evaluator: the request each makes.
getPumpSwapQuote(inputAmount, direction) ==
  getPumpSwapPriceFixed(inputAmount, PUMP_SLIPPAGE, direction)

getDLMMQuote(inputAmount, direction) ==
  IF direction = "quoteToBase"
    THEN getDLMMReversePrice(inputAmount, DLMM_SLIPPAGE)
    ELSE getDLMMPrice(inputAmount, DLMM_SLIPPAGE)

\* The SwapQuote literals: slippageBps / feeBps recorded per venue.
SwapQuoteBps(venue) == IF venue = "pump" THEN 100 ELSE 50

VARIABLES
  mode,                \* CLI mode: "scan", "monitor" or "analysis"
  pc,                  \* position of the mode's driver
  scanCount,           \* startScanner's scan counter
  lastOpportunityTime, \* scan number of the last opportunity, 0 for null
  connection,          \* generation of the Connection object in use
  getSlotCalls,        \* liveness calls made by the recovery path
  processed,           \* allSettled results visited by forEach this cycle
  foundOpportunity,
  bestOpportunity,     \* << >> for null, <<opp>> otherwise
  monitorLog,          \* what the monitor loop logged in its last cycle
  lastCycleFailed,     \* whether the last completed cycle met an error
  cyclesStarted,       \* loop bodies entered
  cyclesCompleted,     \* loop bodies that ran to their end
  delaysElapsed,       \* delay(PROCESS_DELAY) waits that elapsed
  chk,                 \* per direction: the check's state
  settleOrder,         \* directions in the order their checks settled
  cmp,                 \* the price comparison's state
  now,                 \* Date.now(), in clock ticks
  poolCache,           \* per venue module: << >> for null or <<pool>>
  poolCacheTimestamp,  \* per venue module
  fetches,             \* the fetchPoolData calls, in the order issued
  call,                \* one fetchPoolData call of the AMM module, in detail
  decimalsCache,       \* per venue module: mint -> << >> or <<decimals>>
  decimalsCalls,       \* the getTokenDecimals calls, in the order issued
  dquote,              \* one getPumpSwapPriceFixed call resolving decimals
  conv,                \* one price function building its SDK request
  adapter,             \* one price-function call, step by step
  snapshot,            \* one getDLMMBinInfo call
  proc,                \* the process: command line, environment, exit
  recov,               \* the scan loop's connections: tested, used, error
  retry                \* getConnectionWithRetry: the call in progress

driverVars == <<mode, pc, scanCount, lastOpportunityTime, connection,
                getSlotCalls, processed, foundOpportunity, bestOpportunity,
                monitorLog, lastCycleFailed, cyclesStarted, cyclesCompleted,
                delaysElapsed>>
chkVars == <<chk, settleOrder>>
cmpVars == <<cmp>>
cacheVars == <<now, poolCache, poolCacheTimestamp, fetches>>
callVars == <<call>>
decVars == <<decimalsCache, decimalsCalls, dquote>>
convVars == <<conv>>
adapterVars == <<adapter>>
binVars == <<snapshot>>
procVars == <<proc>>
recovVars == <<recov>>
retryVars == <<retry>>
vars == <<driverVars, chkVars, cmpVars, cacheVars, callVars, decVars,
          convVars,
          adapterVars, binVars, procVars, recovVars, retryVars>>

\* ------------------------------------------------------------- records
Null == << >>

\* A quote call in flight: the request plus its (pending) outcome.
Pending(req) == [req |-> req, st |-> "pending", rawOut |-> 0, out |-> 0,
                 connectivity |-> FALSE]
\* The adapter's return value: Number(rawOut) / 10 ** outputDecimals.
Returned(q, rawOut) ==
  [q EXCEPT !.st = "ok", !.rawOut = rawOut,
            !.out = FromRaw(rawOut, Decimals(q.req.outMint))]
\* The adapter threw; connectivity says whether the message names a
\* "connection" or "network" problem.
Threw(q, connectivity) == [q EXCEPT !.st = "err", !.connectivity = connectivity]

IdleCheck == [st |-> "idle", quotes |-> << >>, warned |-> FALSE,
              result |-> [status |-> "pending", value |-> Null]]

\* ------------------------------------------------- direction evaluations
\* First quote of each check: the fixed trade size into the target token.
Hop1Req(d, wsolAmount) ==
  IF d = PumpToDLMM THEN getPumpSwapQuote(wsolAmount, "quoteToBase")
                    ELSE getDLMMQuote(wsolAmount, "quoteToBase")

\* Second quote of each check: the first quote's output back into base.
Hop2Req(d, outputAmount) ==
  IF d = PumpToDLMM THEN getDLMMQuote(outputAmount, "baseToQuote")
                    ELSE getPumpSwapQuote(outputAmount, "baseToQuote")

\* SwapDetails literal built from a quote.
SwapDetails(q, inAmount, inputMint, outputMint) ==
  [label       |-> IF q.req.venue = "pump" THEN "Pump.fun AMM"
                                           ELSE "Meteora DLMM Program",
   inputMint   |-> inputMint,
   outputMint  |-> outputMint,
   inAmount    |-> inAmount,
   outAmount   |-> q.out,
   slippageBps |-> SwapQuoteBps(q.req.venue)]

\* Variant of Profit: the operands exchanged.
ProfitReversed(received, wsolAmount) == wsolAmount - received

\* profit and profitPct as the checks compute them.
Profit(received, wsolAmount) == received - wsolAmount
ProfitPct(profit, wsolAmount) == ((profit * FP) \div wsolAmount) * 100

\* The ArbitrageOpportunity literal returned by a check.
Opportunity(d, wsolAmount, q1, q2) ==
  LET profit == Profit(q2.out, wsolAmount) IN
  [direction  |-> d,
   buyAmount  |-> wsolAmount,
   sellAmount |-> q2.out,
   profit     |-> profit,
   profitPct  |-> ProfitPct(profit, wsolAmount),
   firstSwap  |-> SwapDetails(q1, wsolAmount, "BASE_MINT", "MINT"),
   secondSwap |-> SwapDetails(q2, q1.out, "MINT", "BASE_MINT")]

\* Variant of CheckCatch: the error is thrown on after the warning.
CheckCatchRethrows == [status |-> "rejected", value |-> Null]

\* The catch clause of a check: log a warning, return null.
CheckCatch == [status |-> "fulfilled", value |-> Null]

\* Both checks are called, one after the other, before the await.
StartedChecks == DirSet

StartCheck(d) ==
  [st |-> "hop1", quotes |-> <<Pending(Hop1Req(d, WSOL_TRADE_SIZE))>>,
   warned |-> FALSE,
   result |-> [status |-> "pending", value |-> Null]]

Settled(d) == chk[d].st = "done"
InFlight(d) == chk[d].st \in {"hop1", "hop2"}

\* The first quote of direction d returns rawOut: the second is requested.
Hop1Return(d) ==
  /\ chk[d].st = "hop1"
  /\ \E rawOut \in SdkRawOut(chk[d].quotes[1].req.outMint) :
       LET q1 == Returned(chk[d].quotes[1], rawOut) IN
       chk' = [chk EXCEPT ![d] = [@ EXCEPT
                 !.st = "hop2",
                 !.quotes = <<q1, Pending(Hop2Req(d, q1.out))>>]]
  /\ UNCHANGED <<driverVars, cmpVars, settleOrder, cacheVars, callVars, decVars, convVars, adapterVars, binVars, procVars, recovVars, retryVars>>

\* The second quote returns: the check resolves to its opportunity.
Hop2Return(d) ==
  /\ chk[d].st = "hop2"
  /\ \E rawOut \in SdkRawOut(chk[d].quotes[2].req.outMint) :
       LET q1 == chk[d].quotes[1]
           q2 == Returned(chk[d].quotes[2], rawOut) IN
       chk' = [chk EXCEPT ![d] = [@ EXCEPT
                 !.st = "done",
                 !.quotes = <<q1, q2>>,
                 !.result = [status |-> "fulfilled",
                             value |-> <<Opportunity(d, WSOL_TRADE_SIZE, q1, q2)>>]]]
  /\ settleOrder' = Append(settleOrder, d)
  /\ UNCHANGED <<driverVars, cmpVars, cacheVars, callVars, decVars, convVars, adapterVars, binVars, procVars, recovVars, retryVars>>

\* Variant of HopThrow: one try/catch around both checks, so a throw in
\* one direction ends the other one too.
HopThrowEndsBoth(d) ==
  /\ InFlight(d)
  /\ \E connectivity \in BOOLEAN :
       LET n == Len(chk[d].quotes) IN
       chk' = [e \in DirSet |->
                 IF e = d
                   THEN [chk[d] EXCEPT
                           !.st = "done",
                           !.quotes = [@ EXCEPT ![n] = Threw(@, connectivity)],
                           !.warned = TRUE,
                           !.result = CheckCatch]
                   ELSE [chk[e] EXCEPT !.st = "done", !.warned = TRUE,
                                       !.result = CheckCatch]]
  /\ settleOrder' = Append(settleOrder, d)
  /\ UNCHANGED <<driverVars, cmpVars, cacheVars, callVars, decVars, convVars, adapterVars, binVars, procVars, recovVars, retryVars>>

\* Variant of HopThrow: a first quote that throws is logged and the second
\* quote is requested all the same.
HopThrowGoesOn(d) ==
  /\ InFlight(d)
  /\ \E connectivity \in BOOLEAN :
       LET n == Len(chk[d].quotes) IN
       IF n = 1
         THEN /\ chk' = [chk EXCEPT ![d] = [@ EXCEPT
                        !.st = "hop2",
                        !.quotes = <<Threw(chk[d].quotes[1], connectivity),
                                     Pending(Hop2Req(d, 0))>>]]
              /\ UNCHANGED settleOrder
         ELSE /\ chk' = [chk EXCEPT ![d] = [@ EXCEPT
                        !.st = "done",
                        !.quotes = [@ EXCEPT ![n] = Threw(@, connectivity)],
                        !.warned = TRUE,
                        !.result = CheckCatch]]
              /\ settleOrder' = Append(settleOrder, d)
  /\ UNCHANGED <<driverVars, cmpVars, cacheVars, callVars, decVars, convVars,
                 adapterVars, binVars, procVars, recovVars, retryVars>>

\* The quote in flight throws: the check's catch returns null.
HopThrow(d) ==
  /\ InFlight(d)
  /\ \E connectivity \in BOOLEAN :
       LET n == Len(chk[d].quotes) IN
       chk' = [chk EXCEPT ![d] = [@ EXCEPT
                 !.st = "done",
                 !.quotes = [@ EXCEPT ![n] = Threw(@, connectivity)],
                 !.warned = TRUE,
                 !.result = CheckCatch]]
  /\ settleOrder' = Append(settleOrder, d)
  /\ UNCHANGED <<driverVars, cmpVars, cacheVars, callVars, decVars, convVars, adapterVars, binVars, procVars, recovVars, retryVars>>


\* ------------------------------------------------------- best selection
\* Variant of ForEachStep: ">=" in place of ">", the last equal one wins.
ForEachStepLastWins(acc, result, scanStart) ==
  IF result.status = "fulfilled" /\ result.value # Null
    THEN LET opp == result.value[1] IN
         IF opp.profitPct >= MIN_PROFIT_PCT
           THEN [found |-> TRUE,
                 best  |-> IF acc.best = Null
                              \/ opp.profitPct >= acc.best[1].profitPct
                             THEN <<opp>> ELSE acc.best,
                 last  |-> scanStart]
           ELSE acc
    ELSE acc

\* One forEach callback of startScanner on one allSettled result.
ForEachStep(acc, result, scanStart) ==
  IF result.status = "fulfilled" /\ result.value # Null
    THEN LET opp == result.value[1] IN
         IF opp.profitPct >= MIN_PROFIT_PCT
           THEN [found |-> TRUE,
                 best  |-> IF acc.best = Null
                              \/ opp.profitPct > acc.best[1].profitPct
                             THEN <<opp>> ELSE acc.best,
                 last  |-> scanStart]
           ELSE acc
    ELSE acc

\* The forEach callback's second branch: result.status === "rejected".
RejectedBranchTaken(result) ==
  /\ ~(result.status = "fulfilled" /\ result.value # Null)
  /\ result.status = "rejected"

\* opportunities.forEach(...) over the results in array order.
RECURSIVE ForEach(_, _, _, _)
ForEach(acc, results, i, scanStart) ==
  IF i > Len(results) THEN acc
  ELSE ForEach(ForEachStep(acc, results[i], scanStart), results, i + 1, scanStart)

\* The value the loop's await yields: Promise.allSettled never rejects.
AllSettledResults == [i \in 1..Len(Dirs) |-> chk[Dirs[i]].result]

\* What reaches the catch clause of startScanner's loop body.  The checks
\* resolve on every path and Promise.allSettled never rejects, so nothing
\* does; "connectivity" / "other" would be the two classes of message.
ThrownToLoop == "none"

\* ------------------------------------------------------------ scan loop
\* Top of while(true): scanCount++, both checks are called, then awaited.
StartCycleAt(positions) ==
  /\ mode = "scan" /\ pc \in positions
  /\ scanCount < MaxScans
  /\ scanCount' = scanCount + 1
  /\ cyclesStarted' = cyclesStarted + 1
  /\ chk' = [d \in DirSet |-> IF d \in StartedChecks THEN StartCheck(d)
                                                     ELSE IdleCheck]
  /\ settleOrder' = << >>
  /\ processed' = << >>
  /\ foundOpportunity' = FALSE
  /\ bestOpportunity' = Null
  /\ pc' = "await"
  /\ UNCHANGED <<mode, lastOpportunityTime, connection, getSlotCalls,
                 monitorLog, lastCycleFailed, cyclesCompleted, delaysElapsed,
                 cmpVars, cacheVars, callVars, decVars, convVars, adapterVars, binVars, procVars, recovVars, retryVars>>

\* Variant of StartCycle: the next scan does not wait for the delay.
StartCycleNoDelay == StartCycleAt({"top", "delay"})

\* The loop body is entered at the top of the loop only: after the delay.
StartCycle == StartCycleAt({"top"})

\* A check failed: one of its quotes threw.
Failed(d) == \E i \in 1..Len(chk[d].quotes) : chk[d].quotes[i].st = "err"

\* Variant of JoinReady: a race to the first settled check.
JoinRace == \E d \in DirSet : Settled(d)

\* Promise.allSettled resolves once every check has settled.
JoinReady == \A d \in DirSet : Settled(d)

\* The rest of the loop body after the await, and the catch clause.
ProcessResults ==
  /\ mode = "scan" /\ pc = "await"
  /\ JoinReady
  /\ IF ThrownToLoop = "none"
       THEN LET r == ForEach([found |-> FALSE, best |-> Null,
                              last |-> lastOpportunityTime],
                             AllSettledResults, 1, scanCount) IN
            /\ foundOpportunity' = r.found
            /\ bestOpportunity' = r.best
            /\ lastOpportunityTime' = r.last
            /\ processed' = Dirs
            /\ UNCHANGED <<connection, getSlotCalls>>
       ELSE /\ IF ThrownToLoop = "connectivity"
                 THEN /\ connection' = connection + 1
                      /\ getSlotCalls' = getSlotCalls + 1
                 ELSE UNCHANGED <<connection, getSlotCalls>>
            /\ UNCHANGED <<foundOpportunity, bestOpportunity,
                           lastOpportunityTime, processed>>
  /\ lastCycleFailed' = \E d \in DirSet : Failed(d)
  /\ cyclesCompleted' = cyclesCompleted + 1
  /\ pc' = "delay"
  /\ UNCHANGED <<mode, scanCount, monitorLog, cyclesStarted, delaysElapsed,
                 chkVars, cmpVars, cacheVars, callVars, decVars, convVars, adapterVars, binVars, procVars, recovVars, retryVars>>

\* await delay(PROCESS_DELAY) at the bottom of either loop.
DelayElapsed ==
  /\ mode \in {"scan", "monitor"} /\ pc = "delay"
  /\ delaysElapsed' = delaysElapsed + 1
  /\ pc' = "top"
  /\ UNCHANGED <<mode, scanCount, lastOpportunityTime, connection,
                 getSlotCalls, processed, foundOpportunity, bestOpportunity,
                 monitorLog, lastCycleFailed, cyclesStarted, cyclesCompleted,
                 chkVars, cmpVars, cacheVars, callVars, decVars, convVars, adapterVars, binVars, procVars, recovVars, retryVars>>

\* ------------------------------------------------------ price comparison
\* getPumpSwapPrice: base token in, target token out.
getPumpSwapPrice(inputAmount, slippage) ==
  [venue    |-> "pump",
   sdkFn    |-> "swapAutocompleteQuoteFromBase",
   tag      |-> "baseToQuote",
   inMint   |-> "BASE_MINT",
   outMint  |-> "MINT",
   inAmount |-> inputAmount,
   rawIn    |-> ToRaw(inputAmount, Decimals("BASE_MINT")),
   slippage |-> slippage]

Venues == {"pump", "dlmm"}

IdleCmp == [st |-> "idle", quotes |-> [v \in Venues |-> Pending(getPumpSwapPrice(0, 0))],
            value |-> Null]

\* Variant of StartCmp: the quotes are asked for the trade size.
StartCmpTradeSize ==
  [st |-> "pending",
   quotes |-> [v \in Venues |->
                 IF v = "pump"
                   THEN Pending(getPumpSwapPrice(WSOL_TRADE_SIZE, PUMP_SLIPPAGE))
                   ELSE Pending(getDLMMReversePrice(WSOL_TRADE_SIZE,
                                                    DLMM_SLIPPAGE))],
   value |-> Null]

\* getPriceComparison: both one-unit quotes are requested together.
StartCmp ==
  [st |-> "pending",
   quotes |-> [v \in Venues |->
                 IF v = "pump" THEN Pending(getPumpSwapPrice(FP, PUMP_SLIPPAGE))
                               ELSE Pending(getDLMMReversePrice(FP, DLMM_SLIPPAGE))],
   value |-> Null]

\* a / b on the fixed-point scale.
FDiv(a, b) == (a * FP) \div b
Abs(x) == IF x < 0 THEN 0 - x ELSE x

\* The record getPriceComparison returns.
PriceComparison(pumpTokens, dlmmTokens) ==
  LET pumpPrice == FDiv(FP, pumpTokens)
      dlmmPrice == FDiv(FP, dlmmTokens)
      priceDifference == Abs(pumpPrice - dlmmPrice)
      avgPrice == (pumpPrice + dlmmPrice) \div 2
  IN [pumpPrice |-> pumpPrice,
      dlmmPrice |-> dlmmPrice,
      priceDifference |-> priceDifference,
      priceDifferencePct |-> FDiv(priceDifference, avgPrice) * 100]

\* One of the comparison's quotes returns; with both in, it resolves.
CmpQuoteReturn(v) ==
  /\ cmp.st = "pending" /\ cmp.quotes[v].st = "pending"
  /\ \E rawOut \in SdkRawOut(cmp.quotes[v].req.outMint) :
       LET qs == [cmp.quotes EXCEPT ![v] = Returned(@, rawOut)] IN
       cmp' = IF \A w \in Venues : qs[w].st = "ok"
                THEN [st |-> "ok", quotes |-> qs,
                      value |-> <<PriceComparison(qs["pump"].out, qs["dlmm"].out)>>]
                ELSE [cmp EXCEPT !.quotes = qs]
  /\ UNCHANGED <<driverVars, chkVars, cacheVars, callVars, decVars, convVars, adapterVars, binVars, procVars, recovVars, retryVars>>

\* One of the comparison's quotes throws: Promise.all rejects, the
\* comparison logs and rethrows.
CmpQuoteThrow(v) ==
  /\ cmp.st = "pending" /\ cmp.quotes[v].st = "pending"
  /\ \E connectivity \in BOOLEAN :
       cmp' = [cmp EXCEPT !.st = "err",
                          !.quotes[v] = Threw(@, connectivity)]
  /\ UNCHANGED <<driverVars, chkVars, cacheVars, callVars, decVars, convVars, adapterVars, binVars, procVars, recovVars, retryVars>>

\* ---------------------------------------------------------- monitor loop
\* A logged line: its label and the number printed in it.
Line(label, value) == [label |-> label, value |-> value]

\* Variant of MonitorLines: nothing is logged for a spread that does not
\* exceed the threshold.
MonitorLinesGated(comparison) ==
  IF comparison.priceDifferencePct > MIN_PROFIT_PCT
    THEN <<Line("Price Comparison", 0),
           Line("PumpSwap", comparison.pumpPrice),
           Line("Meteora", comparison.dlmmPrice),
           Line("Spread", comparison.priceDifferencePct),
           Line("Spread above threshold", MIN_PROFIT_PCT)>>
    ELSE << >>

\* The lines the loop logs for a comparison.
MonitorLines(comparison) ==
  <<Line("Price Comparison", 0),
    Line("PumpSwap", comparison.pumpPrice),
    Line("Meteora", comparison.dlmmPrice),
    Line("Spread", comparison.priceDifferencePct)>>
  \o (IF comparison.priceDifferencePct > MIN_PROFIT_PCT
        THEN <<Line("Spread above threshold", MIN_PROFIT_PCT)>>
        ELSE << >>)

\* The line the inner catch logs.
MonitorWarning == <<Line("Price monitoring error", 0)>>

MonitorStart ==
  /\ mode = "monitor" /\ pc = "top"
  /\ cyclesStarted < MaxScans
  /\ cyclesStarted' = cyclesStarted + 1
  /\ cmp' = StartCmp
  /\ pc' = "await"
  /\ UNCHANGED <<mode, scanCount, lastOpportunityTime, connection,
                 getSlotCalls, processed, foundOpportunity, bestOpportunity,
                 monitorLog, lastCycleFailed, cyclesCompleted, delaysElapsed,
                 chkVars, cacheVars, callVars, decVars, convVars, adapterVars, binVars, procVars, recovVars, retryVars>>

\* The comparison resolved: three lines are logged, a fourth with a spread
\* above the threshold.
MonitorLogged ==
  /\ mode = "monitor" /\ pc = "await" /\ cmp.st = "ok"
  /\ monitorLog' = MonitorLines(cmp.value[1])
  /\ lastCycleFailed' = FALSE
  /\ cyclesCompleted' = cyclesCompleted + 1
  /\ pc' = "delay"
  /\ UNCHANGED <<mode, scanCount, lastOpportunityTime, connection,
                 getSlotCalls, processed, foundOpportunity, bestOpportunity,
                 cyclesStarted, delaysElapsed, chkVars, cmpVars, cacheVars, callVars, decVars, convVars, adapterVars, binVars, procVars, recovVars, retryVars>>

\* Variant of MonitorCaught: no inner catch, the error ends the loop.
MonitorErrorEscapes ==
  /\ mode = "monitor" /\ pc = "await" /\ cmp.st = "err"
  /\ pc' = "rejected"
  /\ UNCHANGED <<mode, scanCount, lastOpportunityTime, connection,
                 getSlotCalls, processed, foundOpportunity, bestOpportunity,
                 monitorLog, lastCycleFailed, cyclesStarted, cyclesCompleted,
                 delaysElapsed, chkVars, cmpVars, cacheVars, callVars, decVars, convVars, adapterVars, binVars, procVars, recovVars, retryVars>>

\* The comparison rejected: the inner catch logs a warning.
MonitorCaught ==
  /\ mode = "monitor" /\ pc = "await" /\ cmp.st = "err"
  /\ monitorLog' = MonitorWarning
  /\ lastCycleFailed' = TRUE
  /\ cyclesCompleted' = cyclesCompleted + 1
  /\ pc' = "delay"
  /\ UNCHANGED <<mode, scanCount, lastOpportunityTime, connection,
                 getSlotCalls, processed, foundOpportunity, bestOpportunity,
                 cyclesStarted, delaysElapsed, chkVars, cmpVars, cacheVars, callVars, decVars, convVars, adapterVars, binVars, procVars, recovVars, retryVars>>

\* ------------------------------------------------------ market analysis
\* reduce callback of getMarketAnalysis.
ReduceStep(best, current) ==
  IF best = Null \/ current.profitPct > best[1].profitPct
    THEN <<current>> ELSE best

RECURSIVE Reduce(_, _, _)
Reduce(best, opps, i) ==
  IF i > Len(opps) THEN best ELSE Reduce(ReduceStep(best, opps[i]), opps, i + 1)

\* opportunities.filter(opp => opp !== null)
RECURSIVE FilterNonNull(_, _)
FilterNonNull(values, i) ==
  IF i > Len(values) THEN << >>
  ELSE (IF values[i] = Null THEN << >> ELSE <<values[i][1]>>)
       \o FilterNonNull(values, i + 1)

\* getMarketAnalysis: the comparison and both checks are called together.
AnalysisStart ==
  /\ mode = "analysis" /\ pc = "top"
  /\ cmp' = StartCmp
  /\ chk' = [d \in DirSet |-> StartCheck(d)]
  /\ settleOrder' = << >>
  /\ cyclesStarted' = cyclesStarted + 1
  /\ pc' = "await"
  /\ UNCHANGED <<mode, scanCount, lastOpportunityTime, connection,
                 getSlotCalls, processed, foundOpportunity, bestOpportunity,
                 monitorLog, lastCycleFailed, cyclesCompleted, delaysElapsed, cacheVars, callVars, decVars, convVars, adapterVars, binVars, procVars, recovVars, retryVars>>

\* Promise.all fulfilled: the summary is built.
\* const opportunities = [pumpToDlmmOpp, dlmmToPumpOpp]
AnalysisOpportunities == [i \in 1..Len(Dirs) |-> chk[Dirs[i]].result.value]

AnalysisResolve ==
  /\ mode = "analysis" /\ pc = "await"
  /\ cmp.st = "ok" /\ \A d \in DirSet : Settled(d)
  /\ LET validOpportunities == FilterNonNull(AnalysisOpportunities, 1)
     IN bestOpportunity' = Reduce(Null, validOpportunities, 1)
  /\ cyclesCompleted' = cyclesCompleted + 1
  /\ pc' = "done"
  /\ UNCHANGED <<mode, scanCount, lastOpportunityTime, connection,
                 getSlotCalls, processed, foundOpportunity, monitorLog,
                 lastCycleFailed, cyclesStarted, delaysElapsed, chkVars,
                 cmpVars, cacheVars, callVars, decVars, convVars, adapterVars, binVars, procVars, recovVars, retryVars>>

\* Variant of AnalysisReject: a check that came back null rejects the
\* analysis as well.
AnalysisRejectOnNull ==
  /\ mode = "analysis" /\ pc = "await"
  /\ cmp.st = "err" \/ \E d \in DirSet : Settled(d) /\ Failed(d)
  /\ pc' = "rejected"
  /\ UNCHANGED <<mode, scanCount, lastOpportunityTime, connection,
                 getSlotCalls, processed, foundOpportunity, bestOpportunity,
                 monitorLog, lastCycleFailed, cyclesStarted, cyclesCompleted,
                 delaysElapsed, chkVars, cmpVars, cacheVars, callVars,
                 decVars, convVars, adapterVars, binVars, procVars, recovVars, retryVars>>

\* Promise.all rejected with the comparison's error.
AnalysisReject ==
  /\ mode = "analysis" /\ pc = "await"
  /\ cmp.st = "err"
  /\ pc' = "rejected"
  /\ UNCHANGED <<mode, scanCount, lastOpportunityTime, connection,
                 getSlotCalls, processed, foundOpportunity, bestOpportunity,
                 monitorLog, lastCycleFailed, cyclesStarted, cyclesCompleted,
                 delaysElapsed, chkVars, cmpVars, cacheVars, callVars, decVars, convVars, adapterVars, binVars, procVars, recovVars, retryVars>>

\* ------------------------------------------------------ pool-state cache
\* The pool each venue module is asked for: every caller passes the
\* configured address.
ConfiguredPool(v) == IF v = "pump" THEN "PUMPSWAP_POOL" ELSE "DLMM_POOL"

\* Variant of CacheHit: "<=" in place of "<".
CacheHitInclusive(cache, timestamp, t) ==
  cache # Null /\ t - timestamp <= CACHE_DURATION

\* poolCache && now - poolCacheTimestamp < CACHE_DURATION
CacheHit(cache, timestamp, t) ==
  cache # Null /\ t - timestamp < CACHE_DURATION

InitCache ==
  /\ now = 0
  /\ poolCache = [v \in Venues |-> Null]
  /\ poolCacheTimestamp = [v \in Venues |-> 0]
  /\ fetches = << >>

\* The clock advances.
Tick ==
  /\ now < MaxTime
  /\ now' = now + 1
  /\ UNCHANGED <<poolCache, poolCacheTimestamp, fetches, driverVars,
                 chkVars, cmpVars, callVars, decVars, convVars, adapterVars, binVars, procVars, recovVars, retryVars>>

\* Addresses a caller may pass to fetchPoolData.
PoolAddresses == {ConfiguredPool(v) : v \in Venues}

\* Variant of FetchIssue: the cache is keyed by address, a hit needs the
\* cached pool's pubkey to be the address asked for.
FetchIssueKeyed(v, address) ==
  /\ Len(fetches) < MaxFetches
  /\ LET hit == /\ CacheHit(poolCache[v], poolCacheTimestamp[v], now)
                /\ poolCache[v][1].pubkey = address
         slot == IF poolCache[v] = Null THEN 0 ELSE poolCache[v][1].instance
     IN fetches' = Append(fetches,
          [venue |-> v, address |-> address, issued |-> now,
           st |-> IF hit THEN "hit" ELSE "net",
           instance |-> IF hit THEN slot ELSE 0,
           slotInstance |-> slot,
           slotTimestamp |-> poolCacheTimestamp[v],
           doneBefore |-> {i \in 1..Len(fetches) : fetches[i].st # "net"}])
  /\ UNCHANGED <<now, poolCache, poolCacheTimestamp, driverVars, chkVars,
                 cmpVars, callVars, decVars, convVars, adapterVars, binVars, procVars, recovVars, retryVars>>

\* fetchPoolData(connection, poolAddress) is called on venue v's module:
\* Date.now() is read, then either the cached pool is returned at once or
\* the pool is requested from the network.  slotInstance, slotTimestamp and
\* doneBefore note what the call found: the cached instance (0 for none),
\* its timestamp, and the calls that had completed.
FetchIssue(v, address) ==
  /\ Len(fetches) < MaxFetches
  /\ LET hit == CacheHit(poolCache[v], poolCacheTimestamp[v], now)
         slot == IF poolCache[v] = Null THEN 0 ELSE poolCache[v][1].instance
     IN fetches' = Append(fetches,
          [venue |-> v, address |-> address, issued |-> now,
           st |-> IF hit THEN "hit" ELSE "net",
           instance |-> IF hit THEN slot ELSE 0,
           slotInstance |-> slot,
           slotTimestamp |-> poolCacheTimestamp[v],
           doneBefore |-> {i \in 1..Len(fetches) : fetches[i].st # "net"}])
  /\ UNCHANGED <<now, poolCache, poolCacheTimestamp, driverVars, chkVars,
                 cmpVars, callVars, decVars, convVars, adapterVars, binVars, procVars, recovVars, retryVars>>

\* clearPoolCache() / clearDLMMCache() of venue v's module: the slot and
\* its timestamp are reset.  The call is noted among the module's calls.
ClearPoolCache(v) ==
  /\ Len(fetches) < MaxFetches
  /\ poolCache' = [poolCache EXCEPT ![v] = Null]
  /\ poolCacheTimestamp' = [poolCacheTimestamp EXCEPT ![v] = 0]
  /\ fetches' = Append(fetches,
       [venue |-> v, address |-> "none", issued |-> now, st |-> "clear",
        instance |-> 0,
        slotInstance |-> IF poolCache[v] = Null THEN 0
                         ELSE poolCache[v][1].instance,
        slotTimestamp |-> poolCacheTimestamp[v],
        doneBefore |-> {i \in 1..Len(fetches) : fetches[i].st # "net"}])
  /\ UNCHANGED <<now, driverVars, chkVars, cmpVars, callVars, decVars,
                 convVars, adapterVars, binVars, procVars, recovVars, retryVars>>

\* The network answered call id and the account decoded: a new pool object
\* is built, cached with the time the call read, and returned.
FetchReturn(id) ==
  /\ id \in 1..Len(fetches) /\ fetches[id].st = "net"
  /\ LET f == fetches[id]
         pool == [instance |-> id, pubkey |-> f.address] IN
     /\ poolCache' = [poolCache EXCEPT ![f.venue] = <<pool>>]
     /\ poolCacheTimestamp' = [poolCacheTimestamp EXCEPT ![f.venue] = f.issued]
     /\ fetches' = [fetches EXCEPT ![id] = [@ EXCEPT !.st = "ok",
                                                     !.instance = id]]
  /\ UNCHANGED <<now, driverVars, chkVars, cmpVars, callVars, decVars, convVars, adapterVars, binVars, procVars, recovVars, retryVars>>

\* Call id fails: no account at the address, a decode error or an RPC
\* error; the call throws and the cache is left as it is.
FetchThrow(id) ==
  /\ id \in 1..Len(fetches) /\ fetches[id].st = "net"
  /\ fetches' = [fetches EXCEPT ![id] = [@ EXCEPT !.st = "fail"]]
  /\ UNCHANGED <<now, poolCache, poolCacheTimestamp, driverVars, chkVars,
                 cmpVars, callVars, decVars, convVars, adapterVars, binVars, procVars, recovVars, retryVars>>

\* ------------------------------------------------- AMM pool decoding
\* Account data is a sequence of bytes; Buffer offset k is element k + 1.
\* The 8-byte account discriminator that both decoders skip.
DISCRIMINATOR == 8
\* Length of a key field.
KEY_LEN == 32

\* Variant of poolAccountSchema: the record without coin_creator.
poolAccountSchemaShort ==
  << [name |-> "pool_bump", type |-> "u8", len |-> 1],
     [name |-> "index", type |-> "u16", len |-> 2],
     [name |-> "creator", type |-> "bytes", len |-> KEY_LEN],
     [name |-> "base_mint", type |-> "bytes", len |-> KEY_LEN],
     [name |-> "quote_mint", type |-> "bytes", len |-> KEY_LEN],
     [name |-> "lp_mint", type |-> "bytes", len |-> KEY_LEN],
     [name |-> "pool_base_token_account", type |-> "bytes", len |-> KEY_LEN],
     [name |-> "pool_quote_token_account", type |-> "bytes", len |-> KEY_LEN],
     [name |-> "lp_supply", type |-> "u64", len |-> 8] >>

\* poolAccountSchema: the struct's fields in order, with their widths.
poolAccountSchema ==
  << [name |-> "pool_bump", type |-> "u8", len |-> 1],
     [name |-> "index", type |-> "u16", len |-> 2],
     [name |-> "creator", type |-> "bytes", len |-> KEY_LEN],
     [name |-> "base_mint", type |-> "bytes", len |-> KEY_LEN],
     [name |-> "quote_mint", type |-> "bytes", len |-> KEY_LEN],
     [name |-> "lp_mint", type |-> "bytes", len |-> KEY_LEN],
     [name |-> "pool_base_token_account", type |-> "bytes", len |-> KEY_LEN],
     [name |-> "pool_quote_token_account", type |-> "bytes", len |-> KEY_LEN],
     [name |-> "lp_supply", type |-> "u64", len |-> 8],
     [name |-> "coin_creator", type |-> "bytes", len |-> KEY_LEN] >>

\* Buffer.slice(start, end): clamped to the buffer, never throws.
Slice(data, start, end) ==
  LET e == IF end > Len(data) THEN Len(data) ELSE end IN
  IF start >= e THEN << >> ELSE [i \in 1..(e - start) |-> data[start + i]]

\* Buffer reads throw a RangeError when the value does not fit.
CanRead(data, offset, len) == offset + len <= Len(data)
readUInt8(data, offset) == data[offset + 1]
readUInt16LE(data, offset) == data[offset + 1] + 256 * data[offset + 2]
\* A 64-bit value is kept as four 16-bit limbs, most significant first.
readBigUInt64LE(data, offset) ==
  [k \in 1..4 |-> data[offset + 10 - 2 * k] * 256 + data[offset + 9 - 2 * k]]

\* The value the Borsh reader yields for a field of width len at offset.
BorshValue(data, type, offset, len) ==
  IF type = "u8" THEN data[offset + 1]
  ELSE IF type = "u16" THEN data[offset + 1] + 256 * data[offset + 2]
  ELSE IF type = "u64"
    THEN [k \in 1..4 |->
            data[offset + 10 - 2 * k] * 256 + data[offset + 9 - 2 * k]]
  ELSE [i \in 1..len |-> data[offset + i]]

\* borsh.deserialize(schema, data): the fields are read one after another
\* from offset 0 of data; a read past the end of the buffer throws.
RECURSIVE BorshDeserialize(_, _, _, _, _)
BorshDeserialize(schema, data, i, offset, acc) ==
  IF i > Len(schema) THEN [ok |-> TRUE, account |-> acc, end |-> offset]
  ELSE LET f == schema[i] IN
       IF ~CanRead(data, offset, f.len)
         THEN [ok |-> FALSE, account |-> Null, end |-> offset]
         ELSE BorshDeserialize(schema, data, i + 1, offset + f.len,
                acc @@ (f.name :> BorshValue(data, f.type, offset, f.len)))

EmptyAccount == [x \in {} |-> 0]

\* The try block of deserializePoolAccount: the discriminator is sliced
\* off and the rest handed to Borsh.  end counts from the discriminator.
SchemaDecode(data) ==
  BorshDeserialize(poolAccountSchema, Slice(data, DISCRIMINATOR, Len(data)),
                   1, 0, EmptyAccount)

\* Variant of manualDeserializePoolAccount: lp_supply read before the two
\* pool token accounts.
manualDeserializeSupplyFirst(data) ==
  LET oBump    == DISCRIMINATOR
      oIndex   == oBump + 1
      oCreator == oIndex + 2
      oBase    == oCreator + KEY_LEN
      oQuote   == oBase + KEY_LEN
      oLp      == oQuote + KEY_LEN
      oSupply  == oLp + KEY_LEN
      oPoolB   == oSupply + 8
      oPoolQ   == oPoolB + KEY_LEN
      oCoin    == oPoolQ + KEY_LEN
  IN IF ~CanRead(data, oBump, 1) \/ ~CanRead(data, oIndex, 2)
        \/ ~CanRead(data, oSupply, 8)
       THEN [ok |-> FALSE, account |-> Null, end |-> 0]
       ELSE [ok |-> TRUE,
             account |->
               [pool_bump |-> readUInt8(data, oBump),
                index |-> readUInt16LE(data, oIndex),
                creator |-> Slice(data, oCreator, oCreator + KEY_LEN),
                base_mint |-> Slice(data, oBase, oBase + KEY_LEN),
                quote_mint |-> Slice(data, oQuote, oQuote + KEY_LEN),
                lp_mint |-> Slice(data, oLp, oLp + KEY_LEN),
                pool_base_token_account |->
                  Slice(data, oPoolB, oPoolB + KEY_LEN),
                pool_quote_token_account |->
                  Slice(data, oPoolQ, oPoolQ + KEY_LEN),
                lp_supply |-> readBigUInt64LE(data, oSupply),
                coin_creator |-> Slice(data, oCoin, oCoin + KEY_LEN)],
             end |-> oCoin + KEY_LEN - DISCRIMINATOR]

\* manualDeserializePoolAccount: the offset starts after the discriminator
\* and advances by each field's width.  end is where the last field ends,
\* counted from the discriminator.
manualDeserializePoolAccount(data) ==
  LET oBump    == DISCRIMINATOR
      oIndex   == oBump + 1
      oCreator == oIndex + 2
      oBase    == oCreator + KEY_LEN
      oQuote   == oBase + KEY_LEN
      oLp      == oQuote + KEY_LEN
      oPoolB   == oLp + KEY_LEN
      oPoolQ   == oPoolB + KEY_LEN
      oSupply  == oPoolQ + KEY_LEN
      oCoin    == oSupply + 8
  IN IF ~CanRead(data, oBump, 1) \/ ~CanRead(data, oIndex, 2)
        \/ ~CanRead(data, oSupply, 8)
       THEN [ok |-> FALSE, account |-> Null, end |-> 0]
       ELSE [ok |-> TRUE,
             account |->
               [pool_bump |-> readUInt8(data, oBump),
                index |-> readUInt16LE(data, oIndex),
                creator |-> Slice(data, oCreator, oCreator + KEY_LEN),
                base_mint |-> Slice(data, oBase, oBase + KEY_LEN),
                quote_mint |-> Slice(data, oQuote, oQuote + KEY_LEN),
                lp_mint |-> Slice(data, oLp, oLp + KEY_LEN),
                pool_base_token_account |->
                  Slice(data, oPoolB, oPoolB + KEY_LEN),
                pool_quote_token_account |->
                  Slice(data, oPoolQ, oPoolQ + KEY_LEN),
                lp_supply |-> readBigUInt64LE(data, oSupply),
                coin_creator |-> Slice(data, oCoin, oCoin + KEY_LEN)],
             end |-> oCoin + KEY_LEN - DISCRIMINATOR]

\* Variant of deserializePoolAccount: no fallback to the manual decoder.
deserializeSchemaOnly(data) ==
  LET borsh == SchemaDecode(data) IN
  [ok |-> borsh.ok, account |-> borsh.account, end |-> borsh.end,
   tried |-> <<"schema">>]

\* deserializePoolAccount: Borsh first; its catch clause logs the error and
\* returns what the manual decoder returns (or throws what it throws).
deserializePoolAccount(data) ==
  LET borsh == SchemaDecode(data) IN
  IF borsh.ok
    THEN [ok |-> TRUE, account |-> borsh.account, end |-> borsh.end,
          tried |-> <<"schema">>]
    ELSE LET manual == manualDeserializePoolAccount(data) IN
         [ok |-> manual.ok, account |-> manual.account, end |-> manual.end,
          tried |-> <<"schema", "manual">>]

\* new PublicKey(bytes) of at most KEY_LEN bytes: the bytes as a number,
\* written on KEY_LEN bytes.
PublicKeyOf(bytes) ==
  [i \in 1..KEY_LEN |->
     IF i <= KEY_LEN - Len(bytes) THEN 0
     ELSE bytes[i - (KEY_LEN - Len(bytes))]]

KeyFields == {"creator", "base_mint", "quote_mint", "lp_mint",
              "pool_base_token_account", "pool_quote_token_account",
              "coin_creator"}

\* The PumpPool literal fetchPoolData builds from a decoded account.
PumpPool(instance, poolAddress, poolData) ==
  [instance |-> instance,
   pubkey |-> poolAddress,
   fields |-> [f \in DOMAIN poolData |->
                 IF f \in KeyFields THEN PublicKeyOf(poolData[f])
                                    ELSE poolData[f]]]

\* ---- ledger answers
\* Account sizes the ledger may hold at the address: too short for either
\* decoder, one byte short of lp_supply, a record cut inside coin_creator,
\* and the full record.
AccountSizes == {10, 210, 221, 243}
\* Byte b of an account filled with pattern k.
AccountData(size, k) == [i \in 1..size |-> (i * k + 5) % 256]
AccountInfos == {AccountData(size, k) : size \in AccountSizes, k \in {1, 3}}

\* ---- fetchPoolData of the AMM module, step by step
\* A caller is named by who it is and the scan it belongs to.
NoCaller == [dir |-> "none", scan |-> 0]
ApiCaller == [dir |-> "api", scan |-> 0]
IdleCall == [n |-> 0, pc |-> "idle", caller |-> NoCaller, address |-> "none",
             issued |-> 0, network |-> FALSE, answer |-> "none",
             data |-> Null,
             tried |-> << >>, result |-> Null, error |-> "none"]

\* A caller calls fetchPoolData while no other call is in progress: a cache
\* hit returns at once, a miss awaits connection.getAccountInfo.
PoolFetchStarted(caller, address) ==
  LET hit == CacheHit(poolCache["pump"], poolCacheTimestamp["pump"], now) IN
  [IdleCall EXCEPT
     !.n = call.n + 1, !.caller = caller, !.address = address,
     !.issued = now,
     !.pc = IF hit THEN "returned" ELSE "rpc",
     !.network = ~hit,
     !.result = IF hit THEN poolCache["pump"] ELSE Null]

PoolFetchCall(caller, address) ==
  /\ call.pc # "rpc"
  /\ call' = PoolFetchStarted(caller, address)
  /\ UNCHANGED <<driverVars, chkVars, cmpVars, cacheVars, decVars, convVars, adapterVars, binVars, procVars, recovVars, retryVars>>

\* Variant of FetchFailed: the catch clause logs and returns nothing.
FetchFailedSilently(c, error) == [c EXCEPT !.pc = "returned", !.error = error]

\* What the catch clause of fetchPoolData throws.
FetchFailed(c, error) == [c EXCEPT !.pc = "threw", !.error = error]

\* Variant of GetAccountInfoResolved: the cache is written before the
\* account is decoded.
GetAccountInfoWritesFirst(info) ==
  /\ call.pc = "rpc"
  /\ IF info = Null
       THEN /\ call' = [FetchFailed(call, "Pool not found") EXCEPT
                          !.answer = "null"]
            /\ UNCHANGED <<poolCache, poolCacheTimestamp>>
       ELSE LET poolData == deserializePoolAccount(info[1]) IN
            /\ poolCache' = [poolCache EXCEPT !["pump"] =
                   <<[instance |-> call.n, pubkey |-> call.address,
                      fields |-> EmptyAccount]>>]
            /\ poolCacheTimestamp' =
                   [poolCacheTimestamp EXCEPT !["pump"] = call.issued]
            /\ call' = IF poolData.ok
                 THEN [call EXCEPT !.pc = "returned", !.data = info,
                                           !.answer = "account",
                         !.tried = poolData.tried,
                         !.result = <<PumpPool(call.n, call.address,
                                               poolData.account)>>]
                 ELSE [FetchFailed(call, "decode") EXCEPT
                                 !.answer = "account",
                         !.data = info, !.tried = poolData.tried]
  /\ UNCHANGED <<driverVars, chkVars, cmpVars, now, fetches, decVars, convVars, adapterVars, binVars, procVars, recovVars, retryVars>>

\* getAccountInfo resolves with info (null when the address holds no
\* account): the rest of fetchPoolData runs without another await.
GetAccountInfoResolved(info) ==
  /\ call.pc = "rpc"
  /\ IF info = Null
       THEN /\ call' = [FetchFailed(call, "Pool not found") EXCEPT
                          !.answer = "null"]
            /\ UNCHANGED <<poolCache, poolCacheTimestamp>>
       ELSE LET poolData == deserializePoolAccount(info[1]) IN
            IF poolData.ok
              THEN LET pool == PumpPool(call.n, call.address,
                                        poolData.account) IN
                   /\ poolCache' = [poolCache EXCEPT !["pump"] = <<pool>>]
                   /\ poolCacheTimestamp' =
                        [poolCacheTimestamp EXCEPT !["pump"] = call.issued]
                   /\ call' = [call EXCEPT !.pc = "returned", !.data = info,
                                           !.answer = "account",
                                           !.tried = poolData.tried,
                                           !.result = <<pool>>]
              ELSE /\ call' = [FetchFailed(call, "decode") EXCEPT
                                 !.answer = "account",
                                 !.data = info, !.tried = poolData.tried]
                   /\ UNCHANGED <<poolCache, poolCacheTimestamp>>
  /\ UNCHANGED <<driverVars, chkVars, cmpVars, now, fetches, decVars, convVars, adapterVars, binVars, procVars, recovVars, retryVars>>

\* getAccountInfo rejects (RPC error): the catch clause rethrows.
GetAccountInfoRejected ==
  /\ call.pc = "rpc"
  /\ call' = [FetchFailed(call, "rpc") EXCEPT !.answer = "rejected"]
  /\ UNCHANGED <<driverVars, chkVars, cmpVars, cacheVars, decVars, convVars, adapterVars, binVars, procVars, recovVars, retryVars>>

\* ------------------------------------------------------ decimals cache
Mints == {"BASE_MINT", "MINT"}
\* The fallback getTokenDecimals returns when the supply query fails.
DECIMALS_FALLBACK == 9

InitDecimals ==
  /\ decimalsCache = [v \in Venues |-> [mint \in Mints |-> Null]]
  /\ decimalsCalls = << >>
  /\ dquote = [pc |-> "idle", direction |-> "none", waiting |-> 0,
               inDecimals |-> Null, outDecimals |-> Null]

\* Variant of DecimalsCalled: the cache is not consulted.
DecimalsCalledUncached(v, mint, caller) ==
  Append(decimalsCalls,
    [venue |-> v, mint |-> mint, caller |-> caller,
     st |-> "rpc",
     value |-> Null,
     doneBefore |-> {i \in 1..Len(decimalsCalls) :
                      decimalsCalls[i].st # "rpc"}])

\* Variant of DecimalsCalled: a call that finds a query for the same mint
\* in flight joins it.
DecimalsCalledCoalesced(v, mint, caller) ==
  LET cached == decimalsCache[v][mint]
      inFlight == \E i \in 1..Len(decimalsCalls) :
                    /\ decimalsCalls[i].venue = v
                    /\ decimalsCalls[i].mint = mint
                    /\ decimalsCalls[i].st = "rpc" IN
  Append(decimalsCalls,
    [venue |-> v, mint |-> mint, caller |-> caller,
     st |-> IF cached # Null THEN "hit"
            ELSE IF inFlight THEN "joined" ELSE "rpc",
     value |-> cached,
     doneBefore |-> {i \in 1..Len(decimalsCalls) :
                      decimalsCalls[i].st # "rpc"}])

\* getTokenDecimals(connection, mint) called in venue v's module: a cached
\* value is returned at once, otherwise connection.getTokenSupply is
\* awaited.  doneBefore notes the calls that had completed.
DecimalsCalled(v, mint, caller) ==
  LET cached == decimalsCache[v][mint] IN
  Append(decimalsCalls,
    [venue |-> v, mint |-> mint, caller |-> caller,
     st |-> IF cached # Null THEN "hit" ELSE "rpc",
     value |-> cached,
     doneBefore |-> {i \in 1..Len(decimalsCalls) :
                      decimalsCalls[i].st # "rpc"}])

\* A caller outside the quotes asks one module for a mint's decimals.
ApiDecimalsCall(v, mint) ==
  /\ Len(SelectSeq(decimalsCalls, LAMBDA c : c.caller = "api"))
       < MaxDecimalsCalls
  /\ decimalsCalls' = DecimalsCalled(v, mint, "api")
  /\ UNCHANGED <<decimalsCache, dquote, driverVars, chkVars, cmpVars,
                 cacheVars, callVars, convVars, adapterVars, binVars, procVars, recovVars, retryVars>>

\* getTokenSupply resolves: the decimals are cached and returned.
GetTokenSupplyResolved(id) ==
  /\ id \in 1..Len(decimalsCalls) /\ decimalsCalls[id].st = "rpc"
  /\ LET c == decimalsCalls[id]
         decimals == Decimals(c.mint) IN
     /\ decimalsCache' = [decimalsCache EXCEPT ![c.venue][c.mint] =
                            <<decimals>>]
     /\ decimalsCalls' = [decimalsCalls EXCEPT ![id] =
                            [@ EXCEPT !.st = "ok", !.value = <<decimals>>]]
  /\ UNCHANGED <<dquote, driverVars, chkVars, cmpVars, cacheVars, callVars, convVars, adapterVars, binVars, procVars, recovVars, retryVars>>

\* Variant of GetTokenSupplyRejected: the error is rethrown.
GetTokenSupplyRejectedThrows(id) ==
  /\ id \in 1..Len(decimalsCalls) /\ decimalsCalls[id].st = "rpc"
  /\ decimalsCalls' = [decimalsCalls EXCEPT ![id] = [@ EXCEPT !.st = "threw"]]
  /\ UNCHANGED <<decimalsCache, dquote, driverVars, chkVars, cmpVars,
                 cacheVars, callVars, convVars, adapterVars, binVars, procVars, recovVars, retryVars>>

\* Variant of GetTokenSupplyRejected: the fallback is cached like a fetched
\* value.
GetTokenSupplyRejectedCaches(id) ==
  /\ id \in 1..Len(decimalsCalls) /\ decimalsCalls[id].st = "rpc"
  /\ LET c == decimalsCalls[id] IN
     /\ decimalsCache' = [decimalsCache EXCEPT ![c.venue][c.mint] =
                            <<DECIMALS_FALLBACK>>]
     /\ decimalsCalls' = [decimalsCalls EXCEPT ![id] =
                            [@ EXCEPT !.st = "fallback",
                                      !.value = <<DECIMALS_FALLBACK>>]]
  /\ UNCHANGED <<dquote, driverVars, chkVars, cmpVars, cacheVars, callVars,
                 convVars, adapterVars, binVars, procVars, recovVars, retryVars>>

\* getTokenSupply rejects: the catch clause logs and returns the fallback;
\* nothing is cached.
GetTokenSupplyRejected(id) ==
  /\ id \in 1..Len(decimalsCalls) /\ decimalsCalls[id].st = "rpc"
  /\ decimalsCalls' = [decimalsCalls EXCEPT ![id] =
                         [@ EXCEPT !.st = "fallback",
                                   !.value = <<DECIMALS_FALLBACK>>]]
  /\ UNCHANGED <<decimalsCache, dquote, driverVars, chkVars, cmpVars,
                 cacheVars, callVars, convVars, adapterVars, binVars, procVars, recovVars, retryVars>>

\* ---- getPumpSwapPriceFixed, from its first getTokenDecimals on
DecimalsCallDone(id) == decimalsCalls[id].st \in {"hit", "ok", "fallback"}
InputMint(direction) == IF direction = "baseToQuote" THEN "MINT" ELSE "BASE_MINT"
OutputMint(direction) == IF direction = "baseToQuote" THEN "BASE_MINT" ELSE "MINT"

\* The pool is in hand; inputDecimals is asked for.
QuoteStart(direction) ==
  /\ dquote.pc = "idle"
  /\ decimalsCalls' = DecimalsCalled("pump", InputMint(direction), "quote")
  /\ dquote' = [dquote EXCEPT !.pc = "in", !.direction = direction,
                              !.waiting = Len(decimalsCalls) + 1]
  /\ UNCHANGED <<decimalsCache, driverVars, chkVars, cmpVars, cacheVars,
                 callVars, convVars, adapterVars, binVars, procVars, recovVars, retryVars>>

\* inputDecimals arrives; outputDecimals is asked for.
QuoteInputDecimals ==
  /\ dquote.pc = "in" /\ DecimalsCallDone(dquote.waiting)
  /\ decimalsCalls' =
       DecimalsCalled("pump", OutputMint(dquote.direction), "quote")
  /\ dquote' = [dquote EXCEPT !.pc = "out",
                              !.inDecimals = decimalsCalls[dquote.waiting].value,
                              !.waiting = Len(decimalsCalls) + 1]
  /\ UNCHANGED <<decimalsCache, driverVars, chkVars, cmpVars, cacheVars,
                 callVars, convVars, adapterVars, binVars, procVars, recovVars, retryVars>>

\* outputDecimals arrives; the SDK is asked for the quote.
QuoteOutputDecimals ==
  /\ dquote.pc = "out" /\ DecimalsCallDone(dquote.waiting)
  /\ dquote' = [dquote EXCEPT !.pc = "sdk",
                              !.outDecimals = decimalsCalls[dquote.waiting].value,
                              !.waiting = 0]
  /\ UNCHANGED <<decimalsCache, decimalsCalls, driverVars, chkVars, cmpVars,
                 cacheVars, callVars, convVars, adapterVars, binVars, procVars, recovVars, retryVars>>

\* The SDK answers, or throws.
QuoteSdkReturns ==
  /\ dquote.pc = "sdk"
  /\ dquote' = [dquote EXCEPT !.pc = "returned"]
  /\ UNCHANGED <<decimalsCache, decimalsCalls, driverVars, chkVars, cmpVars,
                 cacheVars, callVars, convVars, adapterVars, binVars, procVars, recovVars, retryVars>>

QuoteSdkThrows ==
  /\ dquote.pc = "sdk"
  /\ dquote' = [dquote EXCEPT !.pc = "threw"]
  /\ UNCHANGED <<decimalsCache, decimalsCalls, driverVars, chkVars, cmpVars,
                 cacheVars, callVars, convVars, adapterVars, binVars, procVars, recovVars, retryVars>>

\* --------------------------------------------- building the SDK request
\* A number is m * 2^e with m of SignificandBits bits, or zero.  The
\* product of two numbers is rounded to the nearest such number, ties to
\* the even significand.
Pow2(k) == 2 ^ k
Float(m, e) == [m |-> m, e |-> e]
\* Bits of n beyond the significand.
ExcessBits(n) ==
  CHOOSE k \in 0..20 :
    /\ n < Pow2(SignificandBits + k)
    /\ k = 0 \/ n >= Pow2(SignificandBits + k - 1)

\* n * 2^e as a number.
RoundToFloat(n, e) ==
  LET k == ExcessBits(n)
      q == n \div Pow2(k)
      r == n % Pow2(k)
      up == k > 0 /\ (2 * r > Pow2(k) \/ (2 * r = Pow2(k) /\ q % 2 = 1))
      m == IF up THEN q + 1 ELSE q
  IN IF m = Pow2(SignificandBits) THEN Float(m \div 2, e + k + 1)
                                  ELSE Float(m, e + k)

\* x * 10 ** decimals (10 ** decimals is exact for the decimals used).
TimesPow10(x, decimals) == RoundToFloat(x.m * (10 ^ decimals), x.e)
\* Math.floor of a non-negative number.
MathFloor(y) == IF y.e >= 0 THEN y.m * Pow2(y.e) ELSE y.m \div Pow2(0 - y.e)
\* Math.floor(inputAmount * 10 ** decimals)
FloorToRaw(x, decimals) == MathFloor(TimesPow10(x, decimals))

\* Amounts and precisions a caller may hand to a price function.
AmountInputs ==
  {Float(m, e) : m \in Pow2(SignificandBits - 1)..(Pow2(SignificandBits) - 1),
                 e \in (0 - 9)..(0 - 3)}
DecimalsInputs == {1, 2, 3}
SlippageInputs == {0, DLMM_SLIPPAGE, PUMP_SLIPPAGE, 250, 300, FP}

\* getDLMMSwapQuote: "buy" swaps base for target (swapYtoX), "sell" the
\* other way.
getDLMMSwapQuote(inputAmount, direction, slippage) ==
  LET swapYtoX == direction = "buy"
      inMint == IF swapYtoX THEN "BASE_MINT" ELSE "MINT" IN
  [venue    |-> "dlmm",
   sdkFn    |-> "swapQuote",
   tag      |-> IF swapYtoX THEN "YtoX" ELSE "XtoY",
   inMint   |-> inMint,
   outMint  |-> IF swapYtoX THEN "MINT" ELSE "BASE_MINT",
   inAmount |-> inputAmount,
   rawIn    |-> ToRaw(inputAmount, Decimals(inMint)),
   slippage |-> (slippage * 100) \div FP]

IdleConv == [pc |-> "idle", kind |-> "none", fn |-> "none",
             amount |-> Float(0, 0), decimals |-> 0, slippage |-> 0,
             rawIn |-> 0, request |-> Null, inputAmount |-> 0,
             sdkQuote |-> Null, reply |-> Null]

\* A price function is called with an amount whose mint has the given
\* decimals: getPumpSwapPrice, getPumpSwapReversePrice, getDLMMPrice and
\* getDLMMReversePrice convert it the same way.
AmountCall(fn, x, decimals) ==
  /\ conv.pc = "idle"
  /\ conv' = [IdleConv EXCEPT !.pc = "called", !.kind = "amount", !.fn = fn,
                              !.amount = x, !.decimals = decimals]
  /\ UNCHANGED <<driverVars, chkVars, cmpVars, cacheVars, callVars, decVars,
                 adapterVars, binVars, procVars, recovVars, retryVars>>

\* new BN(Math.floor(inputAmount * 10 ** decimals))
AmountConverted ==
  /\ conv.pc = "called" /\ conv.kind = "amount"
  /\ conv' = [conv EXCEPT !.pc = "done",
                          !.rawIn = FloorToRaw(conv.amount, conv.decimals)]
  /\ UNCHANGED <<driverVars, chkVars, cmpVars, cacheVars, callVars, decVars,
                 adapterVars, binVars, procVars, recovVars, retryVars>>

\* A bin-venue quote function is called with a slippage.
SlippageCall(fn, slippage) ==
  /\ conv.pc = "idle"
  /\ conv' = [IdleConv EXCEPT !.pc = "called", !.kind = "slippage",
                              !.fn = fn, !.slippage = slippage]
  /\ UNCHANGED <<driverVars, chkVars, cmpVars, cacheVars, callVars, decVars,
                 adapterVars, binVars, procVars, recovVars, retryVars>>

\* The request the function hands to dlmm.swapQuote.
SlippageRequestBuilt ==
  /\ conv.pc = "called" /\ conv.kind = "slippage"
  /\ conv' = [conv EXCEPT !.pc = "done", !.request =
       << IF conv.fn = "getDLMMPrice"
            THEN getDLMMPrice(FP, conv.slippage)
          ELSE IF conv.fn = "getDLMMReversePrice"
            THEN getDLMMReversePrice(FP, conv.slippage)
          ELSE IF conv.fn = "getDLMMSwapQuote:buy"
            THEN getDLMMSwapQuote(FP, "buy", conv.slippage)
          ELSE getDLMMSwapQuote(FP, "sell", conv.slippage) >>]
  /\ UNCHANGED <<driverVars, chkVars, cmpVars, cacheVars, callVars, decVars,
                 adapterVars, binVars, procVars, recovVars, retryVars>>

\* ---- what is reported from the SDK's quote
Min(a, b) == IF a < b THEN a ELSE b

\* Quotes dlmm.swapQuote may answer with (raw amounts; priceImpact on the
\* fixed-point scale): fee, priceImpact and minOutAmount may be missing.
\* spotOut is what the input would fetch at the pool's current price.
SdkQuotes ==
  {[spotOut |-> 1000, outAmount |-> out, fee |-> fee,
    priceImpact |-> impact, minOutAmount |-> minOut] :
     out \in {1000, 950}, fee \in {Null, <<3>>},
     impact \in {Null, <<0>>, <<500>>}, minOut \in {Null, <<900>>}}

\* The SwapQuoteInfo getDLMMSwapQuote returns for the SDK's quote.
SwapQuoteInfo(inputAmount, direction, slippage, quote) ==
  LET swapYtoX == direction = "buy"
      outDecimals == Decimals(IF swapYtoX THEN "MINT" ELSE "BASE_MINT")
      out == FromRaw(quote.outAmount, outDecimals) IN
  [inputAmount     |-> inputAmount,
   outputAmount    |-> out,
   fee             |-> IF quote.fee # Null
                         THEN FromRaw(quote.fee[1], outDecimals) ELSE 0,
   priceImpact     |-> IF quote.priceImpact # Null
                            /\ quote.priceImpact[1] # 0
                         THEN quote.priceImpact[1] ELSE 0,
   minOutputAmount |-> IF quote.minOutAmount # Null
                         THEN FromRaw(quote.minOutAmount[1], outDecimals)
                         ELSE (out * (FP - slippage)) \div FP]

\* calculateDLMMFee / calculateDLMMPriceImpact of the evaluator.
calculateDLMMFee(inputAmount) == (inputAmount * 5) \div 1000
calculateDLMMPriceImpact(inputAmount) == Min(inputAmount \div 20, FP)

\* The SwapQuote getDLMMQuote returns: of the SDK's quote only the output
\* amount is used.
DLMMSwapQuote(inputAmount, direction, quote) ==
  [outputAmount   |-> FromRaw(quote.outAmount,
                        Decimals(getDLMMQuote(inputAmount, direction).outMint)),
   feeAmount      |-> calculateDLMMFee(inputAmount),
   priceImpactPct |-> calculateDLMMPriceImpact(inputAmount),
   slippageBps    |-> SwapQuoteBps("dlmm"),
   feeBps         |-> SwapQuoteBps("dlmm")]

ImpactFns == {"getDLMMSwapQuote:buy", "getDLMMSwapQuote:sell",
              "getDLMMQuote:quoteToBase", "getDLMMQuote:baseToQuote"}
ImpactAmounts == {WSOL_TRADE_SIZE, FP}

\* A bin-venue quote with details is asked for.
ImpactCall(fn, inputAmount) ==
  /\ conv.pc = "idle"
  /\ conv' = [IdleConv EXCEPT !.pc = "called", !.kind = "impact", !.fn = fn,
                              !.inputAmount = inputAmount,
                              !.slippage = DLMM_SLIPPAGE]
  /\ UNCHANGED <<driverVars, chkVars, cmpVars, cacheVars, callVars, decVars,
                 adapterVars, binVars, procVars, recovVars, retryVars>>

\* dlmm.swapQuote answered with quote: the function returns its record.
ImpactReported(quote) ==
  /\ conv.pc = "called" /\ conv.kind = "impact"
  /\ conv' = [conv EXCEPT !.pc = "done", !.sdkQuote = <<quote>>, !.reply =
       << IF conv.fn = "getDLMMSwapQuote:buy"
            THEN SwapQuoteInfo(conv.inputAmount, "buy", conv.slippage, quote)
          ELSE IF conv.fn = "getDLMMSwapQuote:sell"
            THEN SwapQuoteInfo(conv.inputAmount, "sell", conv.slippage, quote)
          ELSE IF conv.fn = "getDLMMQuote:quoteToBase"
            THEN DLMMSwapQuote(conv.inputAmount, "quoteToBase", quote)
          ELSE DLMMSwapQuote(conv.inputAmount, "baseToQuote", quote) >>]
  /\ UNCHANGED <<driverVars, chkVars, cmpVars, cacheVars, callVars, decVars,
                 adapterVars, binVars, procVars, recovVars, retryVars>>

\* ------------------------------------- a price function, step by step
\* The awaited steps of each price function, in program order.
AdapterSteps(fn, direction) ==
  IF fn \in {"getPumpSwapPrice", "getPumpSwapReversePrice"}
    THEN <<"fetchPoolData", "decimals", "sdkQuote", "decimals">>
  ELSE IF fn = "getPumpSwapPriceFixed"
    THEN IF direction \in {"baseToQuote", "quoteToBase"}
           THEN <<"fetchPoolData", "decimals", "decimals", "sdkQuote">>
           ELSE <<"fetchPoolData", "invalidDirection">>
  ELSE <<"create", "decimals", "decimals", "binArrays", "sdkQuote">>

\* The message the catch clause of each function builds:
\* `Failed to get <venue> <what>: ${errMsg}`.
ErrorContext(fn) ==
  IF fn \in {"getPumpSwapPrice", "getPumpSwapPriceFixed"}
    THEN [venue |-> "PumpSwap", what |-> "price"]
  ELSE IF fn = "getPumpSwapReversePrice"
    THEN [venue |-> "PumpSwap", what |-> "reverse price"]
  ELSE IF fn = "getDLMMPrice"
    THEN [venue |-> "DLMM", what |-> "price"]
  ELSE [venue |-> "DLMM", what |-> "reverse price"]

AdapterFns == {"getPumpSwapPrice", "getPumpSwapReversePrice",
               "getPumpSwapPriceFixed", "getDLMMPrice", "getDLMMReversePrice"}
AdapterDirections(fn) ==
  IF fn = "getPumpSwapPriceFixed"
    THEN {"baseToQuote", "quoteToBase", "other"}
    ELSE {"none"}
AdapterCaller == [dir |-> "adapter", scan |-> 0]

IdleAdapter == [n |-> 0, pc |-> "idle", fn |-> "none", direction |-> "none",
                step |-> 0, sdkCalls |-> 0, fetchCalls |-> 0,
                error |-> Null]

StepKind(a) == AdapterSteps(a.fn, a.direction)[a.step]
AtStep(kind) == adapter.pc = "running" /\ StepKind(adapter) = kind

\* The function goes on to its next awaited step, or returns its output.
Advance(a) ==
  LET steps == AdapterSteps(a.fn, a.direction) IN
  IF a.step = Len(steps)
    THEN [a EXCEPT !.pc = "returned"]
    ELSE [a EXCEPT !.step = a.step + 1,
                   !.sdkCalls = IF steps[a.step + 1] = "sdkQuote"
                                  THEN a.sdkCalls + 1 ELSE a.sdkCalls]

\* catch (error): throw new Error(`Failed to get ...: ${errMsg}`)
Rethrown(a, cause) ==
  [a EXCEPT !.pc = "threw",
            !.error = <<[context |-> ErrorContext(a.fn), cause |-> cause]>>]

\* A price function is called: its first statement awaits the pool
\* (fetchPoolData in the AMM module, DLMM.create in the bin module).
AdapterCall(fn, direction) ==
  /\ adapter.pc # "running"
  /\ LET first == AdapterSteps(fn, direction)[1] IN
     /\ adapter' = [IdleAdapter EXCEPT
                      !.n = adapter.n + 1, !.pc = "running", !.fn = fn,
                      !.direction = direction, !.step = 1,
                      !.fetchCalls = IF first = "fetchPoolData" THEN 1 ELSE 0]
     /\ call' = IF first = "fetchPoolData"
                  THEN PoolFetchStarted(AdapterCaller, ConfiguredPool("pump"))
                  ELSE call
  /\ UNCHANGED <<driverVars, chkVars, cmpVars, cacheVars, decVars, convVars, binVars, procVars, recovVars, retryVars>>

\* Variant of AdapterPoolFetchFailed: the fetch is issued again.
AdapterPoolFetchRetried ==
  /\ AtStep("fetchPoolData") /\ call.pc = "threw"
  /\ adapter' = [adapter EXCEPT !.fetchCalls = @ + 1]
  /\ call' = PoolFetchStarted(AdapterCaller, ConfiguredPool("pump"))
  /\ UNCHANGED <<driverVars, chkVars, cmpVars, cacheVars, decVars, convVars, binVars, procVars, recovVars, retryVars>>

\* fetchPoolData threw: the catch clause wraps and rethrows.
AdapterPoolFetchFailed ==
  /\ AtStep("fetchPoolData") /\ call.pc = "threw"
  /\ adapter' = Rethrown(adapter, call.error)
  /\ UNCHANGED <<driverVars, chkVars, cmpVars, cacheVars, callVars, decVars,
                 convVars, binVars, procVars, recovVars, retryVars>>

\* fetchPoolData returned the pool.
AdapterPoolFetched ==
  /\ AtStep("fetchPoolData") /\ call.pc = "returned"
  /\ adapter' = Advance(adapter)
  /\ UNCHANGED <<driverVars, chkVars, cmpVars, cacheVars, callVars, decVars,
                 convVars, binVars, procVars, recovVars, retryVars>>

\* getTokenDecimals returned (it never throws).
AdapterDecimalsReturned ==
  /\ AtStep("decimals")
  /\ adapter' = Advance(adapter)
  /\ UNCHANGED <<driverVars, chkVars, cmpVars, cacheVars, callVars, decVars,
                 convVars, binVars, procVars, recovVars, retryVars>>

\* DLMM.create or getBinArrayForSwap resolved.
AdapterAwaitResolved ==
  /\ AtStep("create") \/ AtStep("binArrays")
  /\ adapter' = Advance(adapter)
  /\ UNCHANGED <<driverVars, chkVars, cmpVars, cacheVars, callVars, decVars,
                 convVars, binVars, procVars, recovVars, retryVars>>

\* DLMM.create or getBinArrayForSwap rejected.
AdapterAwaitRejected ==
  /\ AtStep("create") \/ AtStep("binArrays")
  /\ adapter' = Rethrown(adapter, StepKind(adapter))
  /\ UNCHANGED <<driverVars, chkVars, cmpVars, cacheVars, callVars, decVars,
                 convVars, binVars, procVars, recovVars, retryVars>>

\* The SDK's quote function answered.
AdapterSdkReturned ==
  /\ AtStep("sdkQuote")
  /\ adapter' = Advance(adapter)
  /\ UNCHANGED <<driverVars, chkVars, cmpVars, cacheVars, callVars, decVars,
                 convVars, binVars, procVars, recovVars, retryVars>>

\* The SDK's quote function threw.
AdapterSdkThrew ==
  /\ AtStep("sdkQuote")
  /\ adapter' = Rethrown(adapter, "sdk")
  /\ UNCHANGED <<driverVars, chkVars, cmpVars, cacheVars, callVars, decVars,
                 convVars, binVars, procVars, recovVars, retryVars>>

\* throw new Error(`Invalid swap direction: ${direction}`)
AdapterInvalidDirection ==
  /\ AtStep("invalidDirection")
  /\ adapter' = Rethrown(adapter, "Invalid swap direction")
  /\ UNCHANGED <<driverVars, chkVars, cmpVars, cacheVars, callVars, decVars,
                 convVars, binVars, procVars, recovVars, retryVars>>

\* ------------------------------------------------------ bin snapshot
\* A price is the fraction num / den with den >= 0; den = 0 stands for
\* Infinity.
Rat(num, den) == IF den < 0 THEN [num |-> 0 - num, den |-> 0 - den]
                            ELSE [num |-> num, den |-> den]

\* b to the power k for k >= 0; Math.pow gives 1 for k = 0 whatever b is.
RECURSIVE Power(_, _)
Power(b, k) == IF k = 0 THEN 1 ELSE b * Power(b, k - 1)

\* Variant of BinPrice: the exponent is taken from the bin to the active bin.
BinPriceInverted(binStep, binId, activeId) ==
  LET k == activeId - binId
      n == 10000 + binStep IN
  IF k >= 0 THEN Rat(Power(n, k), Power(10000, k))
            ELSE Rat(Power(10000, 0 - k), Power(n, 0 - k))

\* Math.pow(1 + binStep / 10000, binId - activeId)
BinPrice(binStep, binId, activeId) ==
  LET k == binId - activeId
      n == 10000 + binStep IN
  IF k >= 0 THEN Rat(Power(n, k), Power(10000, k))
            ELSE Rat(Power(10000, 0 - k), Power(n, 0 - k))

\* bin.price > 0
PricePositive(price) == price.num > 0

\* Pools fetchPoolData may hand over (binStep below -10000 or equal to it
\* stands for malformed data), the ranges asked for, and how far the
\* SDK's active bin may be from the descriptor's.
BinSteps == {10, 25, 0 - 10000, 0 - 20000}
ActiveIds == {99, 100, 101}
BinRanges == {0, 1}
ActiveDrift == {0 - 1, 0, 1}

\* The bins dlmm.getBinsAroundActiveBin(binRange, binRange) answers with.
SdkBins(sdkActiveId, binRange, amount) ==
  [i \in 1..(2 * binRange + 1) |->
     [binId |-> sdkActiveId - binRange + i - 1,
      xAmount |-> amount, yAmount |-> amount + i, supply |-> amount * i]]

\* bins.map(...) of getDLMMBinInfo.
BinInfos(pool, sdkBins) ==
  [i \in 1..Len(sdkBins) |->
     [binId |-> sdkBins[i].binId,
      price |-> BinPrice(pool.binStep, sdkBins[i].binId, pool.activeId),
      liquidityX |-> sdkBins[i].xAmount,
      liquidityY |-> sdkBins[i].yAmount,
      supply |-> sdkBins[i].supply]]

IdleSnapshot == [pc |-> "idle", pool |-> Null, binRange |-> 0,
                 sdkBins |-> << >>, result |-> Null]

\* getDLMMBinInfo is called: the pool descriptor is in hand and
\* getBinsAroundActiveBin is awaited.
BinInfoCall(binStep, activeId, binRange) ==
  /\ snapshot.pc = "idle"
  /\ snapshot' = [IdleSnapshot EXCEPT
                    !.pc = "awaiting",
                    !.pool = <<[binStep |-> binStep, activeId |-> activeId]>>,
                    !.binRange = binRange]
  /\ UNCHANGED <<driverVars, chkVars, cmpVars, cacheVars, callVars, decVars,
                 convVars, adapterVars, procVars, recovVars, retryVars>>

\* The SDK answers: the bins are priced and filtered.
BinInfoReturned(sdkActiveId, amount) ==
  /\ snapshot.pc = "awaiting"
  /\ LET pool == snapshot.pool[1]
         sdkBins == SdkBins(sdkActiveId, snapshot.binRange, amount)
         bins == BinInfos(pool, sdkBins) IN
     snapshot' = [snapshot EXCEPT
                    !.pc = "returned", !.sdkBins = sdkBins,
                    !.result = <<[activeBinId |-> pool.activeId,
                                  bins |-> SelectSeq(bins,
                                    LAMBDA bin : PricePositive(bin.price))]>>]
  /\ UNCHANGED <<driverVars, chkVars, cmpVars, cacheVars, callVars, decVars,
                 convVars, adapterVars, procVars, recovVars, retryVars>>

\* The SDK rejects: the catch clause rethrows.
BinInfoThrew ==
  /\ snapshot.pc = "awaiting"
  /\ snapshot' = [snapshot EXCEPT !.pc = "threw"]
  /\ UNCHANGED <<driverVars, chkVars, cmpVars, cacheVars, callVars, decVars,
                 convVars, adapterVars, procVars, recovVars, retryVars>>

\* ------------------------------------------------- the command line
\* A string is a sequence of characters.
UpperCase == <<"A", "C", "E", "H", "L", "M", "N", "O", "P", "R", "S", "T",
               "W", "Y", "Z", "I">>
LowerCase == <<"a", "c", "e", "h", "l", "m", "n", "o", "p", "r", "s", "t",
               "w", "y", "z", "i">>

\* Variant of toLowerCase: the string is left as it is.
toLowerCaseNot(str) == str

\* String.prototype.toLowerCase
toLowerCase(str) ==
  [i \in 1..Len(str) |->
     IF \E k \in 1..Len(UpperCase) : UpperCase[k] = str[i]
       THEN LowerCase[CHOOSE k \in 1..Len(UpperCase) : UpperCase[k] = str[i]]
       ELSE str[i]]

\* The case labels of main's switch.
ScanLabels == {<<"s", "c", "a", "n">>, <<"s", "c", "a", "n", "n", "e", "r">>}
MonitorLabels == {<<"m", "o", "n", "i", "t", "o", "r">>,
                  <<"w", "a", "t", "c", "h">>}
AnalysisLabels == {<<"a", "n", "a", "l", "y", "s", "i", "s">>,
                   <<"a", "n", "a", "l", "y", "z", "e">>}
HelpLabels == {<<"h", "e", "l", "p">>, <<"-", "-", "h", "e", "l", "p">>,
               <<"-", "h">>}

\* process.argv.slice(2): no argument at all, or one argument.
ArgvInputs ==
  {<< >>} \cup
  {<<arg>> : arg \in
     {<< >>, <<"s", "c", "a", "n">>, <<"S", "C", "A", "N">>,
      <<"S", "c", "a", "n", "n", "e", "r">>,
      <<"m", "o", "n", "i", "t", "o", "r">>, <<"W", "a", "t", "c", "h">>,
      <<"A", "N", "A", "L", "Y", "Z", "E">>,
      <<"a", "n", "a", "l", "y", "s", "i", "s">>,
      <<"H", "e", "l", "p">>, <<"-", "h">>,
      <<"s", "c", "a", "n", "s">>, <<"t", "r", "a", "d", "e">>}}

\* The environment: which of the settings are present.  KEYPAIR stands for
\* a loadable KEYPAIR_PATH or PRIVATE_KEY.
EnvNames == {"KEYPAIR", "PUMPSWAP_POOL", "DLMM_POOL", "MINT", "BASE_MINT"}
EnvInputs == {EnvNames} \cup {EnvNames \ {name} : name \in EnvNames}
\* Settings read by `new PublicKey(process.env.X!)` when the modules load.
LoadTimeKeys == {"PUMPSWAP_POOL", "DLMM_POOL", "MINT", "BASE_MINT"}

\* const mode = args[0] || "scan"
ModeArg(argv) ==
  IF Len(argv) = 0 \/ argv[1] = << >> THEN <<"s", "c", "a", "n">> ELSE argv[1]

\* The steps of initializeScanner before startScanner, in program order.
InitSteps == <<"getSlot", "loadKeypair", "getBalance", "debugPoolStructure",
               "getPoolBalances", "validatePumpConfig", "validateDLMMConfig">>
\* Steps whose failure is caught where it happens and only logged.
SwallowedSteps == {"getBalance", "debugPoolStructure"}
\* Steps whose outcome depends on the network.
NetworkSteps == {"getSlot", "getBalance", "debugPoolStructure",
                 "getPoolBalances"}
\* What a step needs of the environment.
StepNeeds(step) ==
  IF step = "loadKeypair" THEN {"KEYPAIR"}
  ELSE IF step = "validatePumpConfig" THEN {"PUMPSWAP_POOL", "MINT", "BASE_MINT"}
  ELSE IF step = "validateDLMMConfig" THEN {"DLMM_POOL", "MINT", "BASE_MINT"}
  ELSE {}

IdleProc == [pc |-> "idle", argv |-> << >>, env |-> {},
             dispatched |-> FALSE, started |-> "none",
             step |-> 0, failed |-> {}, usage |-> FALSE, loop |-> FALSE,
             exit |-> Null]

\* process.exit(code)
Exit(p, code) == [p EXCEPT !.pc = "exited", !.exit = <<code>>]

\* The program is started with a command line and an environment.
ProcLaunch(argv, env) ==
  /\ proc.pc = "idle"
  /\ proc' = [IdleProc EXCEPT !.pc = "load", !.argv = argv, !.env = env]
  /\ UNCHANGED <<driverVars, chkVars, cmpVars, cacheVars, callVars, decVars,
                 convVars, adapterVars, binVars, recovVars, retryVars>>

\* The modules load and main is entered.  With a pool or mint setting
\* absent, whether `new PublicKey(undefined)` throws is the library's
\* business: both outcomes are followed.
ModulesLoaded ==
  /\ proc.pc = "load"
  /\ proc' = [proc EXCEPT !.pc = "main"]
  /\ UNCHANGED <<driverVars, chkVars, cmpVars, cacheVars, callVars, decVars,
                 convVars, adapterVars, binVars, recovVars, retryVars>>

ModuleLoadThrew ==
  /\ proc.pc = "load"
  /\ ~(LoadTimeKeys \subseteq proc.env)
  /\ proc' = Exit(proc, 1)
  /\ UNCHANGED <<driverVars, chkVars, cmpVars, cacheVars, callVars, decVars,
                 convVars, adapterVars, binVars, recovVars, retryVars>>

\* main: switch (mode.toLowerCase()).
MainDispatch ==
  /\ proc.pc = "main"
  /\ LET mode_ == toLowerCase(ModeArg(proc.argv))
         p == [proc EXCEPT !.dispatched = TRUE] IN
     proc' =
       IF mode_ \in ScanLabels
         THEN [p EXCEPT !.pc = "init", !.started = "scan", !.step = 1]
       ELSE IF mode_ \in MonitorLabels
         THEN [p EXCEPT !.pc = "monitor", !.started = "monitor"]
       ELSE IF mode_ \in AnalysisLabels
         THEN [p EXCEPT !.pc = "analysis", !.started = "analysis"]
       ELSE IF mode_ \in HelpLabels
         THEN [p EXCEPT !.pc = "returned", !.usage = TRUE]
       ELSE Exit([p EXCEPT !.usage = TRUE], 1)
  /\ UNCHANGED <<driverVars, chkVars, cmpVars, cacheVars, callVars, decVars,
                 convVars, adapterVars, binVars, recovVars, retryVars>>

\* Variant of InitStepFailed: the failure is logged and initialization goes
\* on.
InitStepFailedGoesOn(p) ==
  [p EXCEPT !.failed = @ \cup {InitSteps[p.step]},
            !.step = IF p.step = Len(InitSteps) THEN 0 ELSE p.step + 1,
            !.pc = IF p.step = Len(InitSteps) THEN "scanning" ELSE "init",
            !.loop = p.step = Len(InitSteps)]

\* A step of initializeScanner failed: where the failure is not caught on
\* the spot, the catch clause logs and calls process.exit(1).
InitStepFailed(p) ==
  IF InitSteps[p.step] \in SwallowedSteps
    THEN [p EXCEPT !.failed = @ \cup {InitSteps[p.step]}, !.step = p.step + 1]
    ELSE Exit([p EXCEPT !.failed = @ \cup {InitSteps[p.step]}], 1)

\* The current step of initializeScanner completes; after the last one
\* startScanner is entered.
InitStepOk ==
  /\ proc.pc = "init"
  /\ StepNeeds(InitSteps[proc.step]) \subseteq proc.env
  /\ proc' = IF proc.step = Len(InitSteps)
               THEN [proc EXCEPT !.pc = "scanning", !.loop = TRUE, !.step = 0]
               ELSE [proc EXCEPT !.step = proc.step + 1]
  /\ UNCHANGED <<driverVars, chkVars, cmpVars, cacheVars, callVars, decVars,
                 convVars, adapterVars, binVars, recovVars, retryVars>>

\* The current step fails: for want of a setting, or on the network.
InitStepFails ==
  /\ proc.pc = "init"
  /\ \/ ~(StepNeeds(InitSteps[proc.step]) \subseteq proc.env)
     \/ InitSteps[proc.step] \in NetworkSteps
  /\ proc' = InitStepFailed(proc)
  /\ UNCHANGED <<driverVars, chkVars, cmpVars, cacheVars, callVars, decVars,
                 convVars, adapterVars, binVars, recovVars, retryVars>>

\* ------------------------------------ the scan loop's catch clause
\* Connections are numbered in the order getConnection built them; the one
\* startScanner is handed passed validateSolanaConfig's getSlot.
InitRecov == [live |-> {0}, used |-> << >>, err |-> "none",
              outcome |-> "none"]

\* The passes of the loop that are followed.
MaxPasses == 4

\* The error messages told apart: one that includes "connection", one that
\* includes "network", and any other.
ErrorClasses == {"connection", "network", "other"}

\* The test the catch clause makes on the message.
IsConnectivity(err) == err \in {"connection", "network"}

\* One pass through the loop body in which the try block runs to its end.
CycleRuns ==
  /\ mode = "scan" /\ pc = "top"
  /\ scanCount < MaxPasses
  /\ scanCount' = scanCount + 1
  /\ cyclesStarted' = cyclesStarted + 1
  /\ cyclesCompleted' = cyclesCompleted + 1
  /\ recov' = [recov EXCEPT !.used = Append(@, connection), !.err = "none",
                            !.outcome = "none"]
  /\ pc' = "delay"
  /\ UNCHANGED <<mode, lastOpportunityTime, connection, getSlotCalls,
                 processed, foundOpportunity, bestOpportunity, monitorLog,
                 lastCycleFailed, delaysElapsed, chkVars, cmpVars, cacheVars,
                 callVars, decVars, convVars, adapterVars, binVars, procVars, retryVars>>

\* What the catch clause assigns to `connection` before the liveness call.
ReconnectAssigned(current) == current + 1

\* One pass in which the try block throws err: the catch clause logs it
\* and, for a connectivity message, builds a connection, assigns it and
\* awaits getSlot on it.
CycleThrows(err) ==
  /\ mode = "scan" /\ pc = "top"
  /\ scanCount < MaxPasses
  /\ scanCount' = scanCount + 1
  /\ cyclesStarted' = cyclesStarted + 1
  /\ recov' = [recov EXCEPT !.used = Append(@, connection), !.err = err,
                            !.outcome = "none"]
  /\ IF IsConnectivity(err)
       THEN /\ connection' = ReconnectAssigned(connection)
            /\ getSlotCalls' = getSlotCalls + 1
            /\ pc' = "reconnect"
            /\ UNCHANGED cyclesCompleted
       ELSE /\ pc' = "delay"
            /\ cyclesCompleted' = cyclesCompleted + 1
            /\ UNCHANGED <<connection, getSlotCalls>>
  /\ lastCycleFailed' = TRUE
  /\ UNCHANGED <<mode, lastOpportunityTime, processed, foundOpportunity,
                 bestOpportunity, monitorLog, delaysElapsed, chkVars, cmpVars,
                 cacheVars, callVars, decVars, convVars, adapterVars, binVars,
                 procVars, retryVars>>

\* getSlot resolved on the connection built last.
ReconnectSucceeded ==
  /\ mode = "scan" /\ pc = "reconnect"
  /\ recov' = [recov EXCEPT !.live = @ \cup {connection},
                            !.outcome = "ok"]
  /\ cyclesCompleted' = cyclesCompleted + 1
  /\ pc' = "delay"
  /\ UNCHANGED <<mode, scanCount, lastOpportunityTime, connection,
                 getSlotCalls, processed, foundOpportunity, bestOpportunity,
                 monitorLog, lastCycleFailed, cyclesStarted, delaysElapsed,
                 chkVars, cmpVars, cacheVars, callVars, decVars, convVars,
                 adapterVars, binVars, procVars, retryVars>>

\* getSlot rejected: the inner catch logs "Reconnection failed".
ReconnectFailed ==
  /\ mode = "scan" /\ pc = "reconnect"
  /\ recov' = [recov EXCEPT !.outcome = "failed"]
  /\ cyclesCompleted' = cyclesCompleted + 1
  /\ pc' = "delay"
  /\ UNCHANGED <<mode, scanCount, lastOpportunityTime, connection,
                 getSlotCalls, processed, foundOpportunity, bestOpportunity,
                 monitorLog, lastCycleFailed, cyclesStarted, delaysElapsed,
                 chkVars, cmpVars, cacheVars, callVars, decVars, convVars,
                 adapterVars, binVars, procVars, retryVars>>

\* ------------------------------------------------ connection with retry
\* The values of maxRetries followed, and the calls made.  built counts
\* the connections getConnection has made: each attempt makes a new one.
MaxRetries == 4
MaxRetryCalls == 2

\* The messages an attempt may fail with.
RetryErrors == {"timeout", "refused"}

IdleRetry == [pc |-> "idle", calls |-> 0, maxRetries |-> 0, i |-> 0,
              attempts |-> 0, failed |-> 0, waits |-> << >>,
              lastError |-> Null, result |-> Null, built |-> 0]

\* Variant of LoopContinues: "<=" in place of "<".
LoopContinuesInclusive(i, maxRetries) == i <= maxRetries

\* for (let i = 0; i < maxRetries; i++)
LoopContinues(i, maxRetries) == i < maxRetries
\* if (i < maxRetries - 1)
WaitsBeforeRetry(i, maxRetries) == i < maxRetries - 1
\* Math.pow(2, i) * 1000, in milliseconds.
Backoff(i) == Power(2, i) * 1000

\* The top of the loop with counter i: either an attempt starts, up to its
\* await of getSlot, or the loop is over and the function throws.
LoopTop(r, i) ==
  IF LoopContinues(i, r.maxRetries)
    THEN [r EXCEPT !.i = i, !.attempts = @ + 1, !.built = @ + 1,
                   !.pc = "slot"]
    ELSE [r EXCEPT !.i = i, !.pc = "threw"]

\* getConnectionWithRetry(maxRetries) is called.
RetryCall(maxRetries) ==
  /\ retry.pc \in {"idle", "returned", "threw"}
  /\ retry.calls < MaxRetryCalls
  /\ retry' = LoopTop([IdleRetry EXCEPT !.calls = retry.calls + 1,
                                        !.built = retry.built,
                                        !.maxRetries = maxRetries], 0)
  /\ UNCHANGED <<driverVars, chkVars, cmpVars, cacheVars, callVars, decVars,
                 convVars, adapterVars, binVars, procVars, recovVars>>

\* getSlot resolved: the connection of this attempt is returned.
RetrySlotResolved ==
  /\ retry.pc = "slot"
  /\ retry' = [retry EXCEPT !.pc = "returned", !.result = <<retry.built>>]
  /\ UNCHANGED <<driverVars, chkVars, cmpVars, cacheVars, callVars, decVars,
                 convVars, adapterVars, binVars, procVars, recovVars>>

\* getSlot rejected with err: it is kept as lastError and logged; then
\* either the backoff timer is set or the loop goes on to its test.
RetrySlotRejected(err) ==
  /\ retry.pc = "slot"
  /\ LET r == [retry EXCEPT !.lastError = <<err>>, !.failed = @ + 1] IN
     retry' = IF WaitsBeforeRetry(retry.i, retry.maxRetries)
                THEN [r EXCEPT !.waits = Append(@, Backoff(retry.i)),
                               !.pc = "wait"]
                ELSE LoopTop(r, retry.i + 1)
  /\ UNCHANGED <<driverVars, chkVars, cmpVars, cacheVars, callVars, decVars,
                 convVars, adapterVars, binVars, procVars, recovVars>>

\* The backoff timer fired: i++ and the loop test.
RetryTimerFired ==
  /\ retry.pc = "wait"
  /\ retry' = LoopTop(retry, retry.i + 1)
  /\ UNCHANGED <<driverVars, chkVars, cmpVars, cacheVars, callVars, decVars,
                 convVars, adapterVars, binVars, procVars, recovVars>>

\* ---- a scan cycle whose AMM quotes fetch the pool
\* The quote a check is waiting for.
PendingQuote(d) == chk[d].quotes[Len(chk[d].quotes)]
AwaitsPumpQuote(d) == InFlight(d) /\ PendingQuote(d).req.venue = "pump"
\* The fetchPoolData call made by direction d's AMM quote of this scan.
CallerOf(d) == [dir |-> d, scan |-> scanCount]

\* getPumpSwapPriceFixed begins: it calls fetchPoolData.  One fetch at a
\* time is followed, so the previous caller has picked up its outcome.
ScanFetchCall(d) ==
  /\ AwaitsPumpQuote(d)
  /\ call.caller # CallerOf(d)
  /\ \A e \in DirSet : ~(AwaitsPumpQuote(e) /\ call.caller = CallerOf(e))
  /\ PoolFetchCall(CallerOf(d), ConfiguredPool("pump"))

\* A quote can return once its pool fetch has returned (the bin venue's
\* quotes do not use fetchPoolData).
QuoteMayReturn(d) ==
  /\ InFlight(d)
  /\ AwaitsPumpQuote(d) => (call.caller = CallerOf(d) /\ call.pc = "returned")

\* A quote throws what its pool fetch threw, or what a later step throws.
QuoteMayThrow(d) ==
  /\ InFlight(d)
  /\ AwaitsPumpQuote(d) =>
       (call.caller = CallerOf(d) /\ call.pc \in {"returned", "threw"})

\* ------------------------------------------------------- specification
Init ==
  /\ mode \in {"scan", "monitor", "analysis"}
  /\ pc = "top"
  /\ scanCount = 0
  /\ lastOpportunityTime = 0
  /\ connection = 0
  /\ getSlotCalls = 0
  /\ processed = << >>
  /\ foundOpportunity = FALSE
  /\ bestOpportunity = Null
  /\ monitorLog = << >>
  /\ lastCycleFailed = FALSE
  /\ cyclesStarted = 0
  /\ cyclesCompleted = 0
  /\ delaysElapsed = 0
  /\ chk = [d \in DirSet |-> IdleCheck]
  /\ settleOrder = << >>
  /\ cmp = IdleCmp
  /\ InitCache
  /\ call = IdleCall
  /\ InitDecimals
  /\ conv = IdleConv
  /\ adapter = IdleAdapter
  /\ snapshot = IdleSnapshot
  /\ proc = IdleProc
  /\ recov = InitRecov
  /\ retry = IdleRetry

Next ==
  \/ StartCycle
  \/ \E d \in DirSet : Hop1Return(d)
  \/ \E d \in DirSet : Hop2Return(d)
  \/ \E d \in DirSet : HopThrow(d)
  \/ ProcessResults
  \/ DelayElapsed
  \/ \E v \in Venues : CmpQuoteReturn(v)
  \/ \E v \in Venues : CmpQuoteThrow(v)
  \/ MonitorStart
  \/ MonitorLogged
  \/ MonitorCaught
  \/ AnalysisStart
  \/ AnalysisResolve
  \/ AnalysisReject

Spec == Init /\ [][Next]_vars

\* The pool-state cache under calls that may overlap, with the clock.
InitFetch ==
  /\ Init
  /\ mode = "scan"

NextFetch ==
  \/ Tick
  \/ \E v \in Venues : FetchIssue(v, ConfiguredPool(v))
  \/ \E id \in 1..MaxFetches : FetchReturn(id)
  \/ \E id \in 1..MaxFetches : FetchThrow(id)

SpecFetch == InitFetch /\ [][NextFetch]_vars

\* The pool-state cache of one venue module at a time, asked for any
\* address.
NextFetchAny ==
  \/ Tick
  \/ \E v \in Venues : \E address \in PoolAddresses :
       /\ \A i \in 1..Len(fetches) : fetches[i].venue = v
       /\ FetchIssue(v, address)
  \/ \E id \in 1..MaxFetches : FetchReturn(id)
  \/ \E id \in 1..MaxFetches : FetchThrow(id)

SpecFetchAny == InitFetch /\ [][NextFetchAny]_vars

\* The pool-state caches with manual invalidation, beside the decimals
\* caches being filled.
NextClear ==
  \/ Tick
  \/ \E v \in Venues : FetchIssue(v, ConfiguredPool(v))
  \/ \E id \in 1..MaxFetches : FetchReturn(id)
  \/ \E id \in 1..MaxFetches : FetchThrow(id)
  \/ \E v \in Venues : ClearPoolCache(v)
  \/ \E v \in Venues : \E mint \in Mints : ApiDecimalsCall(v, mint)
  \/ \E id \in 1..MaxDecimalsCalls : GetTokenSupplyResolved(id)

SpecClear == InitFetch /\ [][NextClear]_vars

\* fetchPoolData of the AMM module, one call after another, against every
\* answer of the ledger.
NextPoolFetch ==
  \/ Tick
  \/ /\ call.n < MaxFetches
     /\ PoolFetchCall(ApiCaller, ConfiguredPool("pump"))
  \/ \E info \in {Null} \cup {<<d>> : d \in AccountInfos} :
       GetAccountInfoResolved(info)
  \/ GetAccountInfoRejected

SpecPoolFetch == InitFetch /\ [][NextPoolFetch]_vars

\* The scan loop with the pool fetch of each AMM quote followed in detail;
\* the clock is followed between cycles, where the cache can expire.
NextScanFetch ==
  \/ StartCycle
  \/ pc = "delay" /\ Tick
  \/ \E d \in DirSet : ScanFetchCall(d)
  \/ \E info \in {Null, <<AccountData(243, 1)>>} :
       GetAccountInfoResolved(info)
  \/ GetAccountInfoRejected
  \/ \E d \in DirSet : QuoteMayReturn(d) /\ Hop1Return(d)
  \/ \E d \in DirSet : QuoteMayReturn(d) /\ Hop2Return(d)
  \/ \E d \in DirSet : QuoteMayThrow(d) /\ HopThrow(d)
  \/ ProcessResults
  \/ DelayElapsed

SpecScanFetch == InitFetch /\ [][NextScanFetch]_vars

\* getTokenDecimals: one AMM quote resolving its two mints, and calls from
\* elsewhere to one module, all free to overlap.
NextDecimals ==
  \/ \E v \in Venues : \E mint \in Mints :
       /\ \A i \in 1..Len(decimalsCalls) :
            decimalsCalls[i].caller = "api" => decimalsCalls[i].venue = v
       /\ ApiDecimalsCall(v, mint)
  \/ \E id \in 1..(MaxDecimalsCalls + 2) : GetTokenSupplyResolved(id)
  \/ \E id \in 1..(MaxDecimalsCalls + 2) : GetTokenSupplyRejected(id)
  \/ \E direction \in {"baseToQuote", "quoteToBase"} : QuoteStart(direction)
  \/ QuoteInputDecimals
  \/ QuoteOutputDecimals
  \/ QuoteSdkReturns
  \/ QuoteSdkThrows

SpecDecimals == InitFetch /\ [][NextDecimals]_vars

\* The price functions' conversions, on every input of the bounded sets.
AmountFns == {"getPumpSwapPrice", "getPumpSwapReversePrice", "getDLMMPrice",
              "getDLMMReversePrice"}
SlippageFns == {"getDLMMPrice", "getDLMMReversePrice", "getDLMMSwapQuote:buy",
                "getDLMMSwapQuote:sell"}

NextConvert ==
  \/ \E fn \in AmountFns : \E x \in AmountInputs :
       \E decimals \in DecimalsInputs : AmountCall(fn, x, decimals)
  \/ AmountConverted
  \/ \E fn \in SlippageFns : \E slippage \in SlippageInputs :
       SlippageCall(fn, slippage)
  \/ SlippageRequestBuilt
  \/ \E fn \in ImpactFns : \E inputAmount \in ImpactAmounts :
       ImpactCall(fn, inputAmount)
  \/ \E quote \in SdkQuotes : ImpactReported(quote)

SpecConvert == InitFetch /\ [][NextConvert]_vars

\* The price functions called one after another, against every outcome of
\* each awaited step.
NextAdapter ==
  \/ Tick
  \/ \E fn \in AdapterFns : \E direction \in AdapterDirections(fn) :
       adapter.n < MaxAdapterCalls /\ AdapterCall(fn, direction)
  \/ \E info \in {Null, <<AccountData(243, 1)>>, <<AccountData(10, 1)>>} :
       GetAccountInfoResolved(info)
  \/ GetAccountInfoRejected
  \/ AdapterPoolFetchFailed
  \/ AdapterPoolFetched
  \/ AdapterDecimalsReturned
  \/ AdapterAwaitResolved
  \/ AdapterAwaitRejected
  \/ AdapterSdkReturned
  \/ AdapterSdkThrew
  \/ AdapterInvalidDirection

SpecAdapter == InitFetch /\ [][NextAdapter]_vars

\* getDLMMBinInfo on every pool, range and answer of the bounded sets.
NextBins ==
  \/ \E binStep \in BinSteps : \E activeId \in ActiveIds :
       \E binRange \in BinRanges : BinInfoCall(binStep, activeId, binRange)
  \/ \E drift \in ActiveDrift : \E amount \in {0, 7} :
       BinInfoReturned(snapshot.pool[1].activeId + drift, amount)
  \/ BinInfoThrew

SpecBins == InitFetch /\ [][NextBins]_vars

\* The program from its start to the mode it runs, on every command line
\* and environment of the bounded sets.
NextCli ==
  \/ \E argv \in ArgvInputs : \E env \in EnvInputs : ProcLaunch(argv, env)
  \/ ModulesLoaded
  \/ ModuleLoadThrew
  \/ MainDispatch
  \/ InitStepOk
  \/ InitStepFails

SpecCli == InitFetch /\ [][NextCli]_vars

\* The scan loop seen from its catch clause: each pass either runs to its
\* end or throws an error of either class.
NextRecovery ==
  \/ CycleRuns
  \/ \E err \in ErrorClasses : CycleThrows(err)
  \/ ReconnectSucceeded
  \/ ReconnectFailed
  \/ DelayElapsed

SpecRecovery == InitFetch /\ [][NextRecovery]_vars

\* getConnectionWithRetry, called with every maxRetries of the bound.
NextRetry ==
  \/ \E maxRetries \in 0..MaxRetries : RetryCall(maxRetries)
  \/ RetrySlotResolved
  \/ \E err \in RetryErrors : RetrySlotRejected(err)
  \/ RetryTimerFired

\* An awaited getSlot settles and a timer that was set fires.
SpecRetry ==
  /\ InitFetch /\ [][NextRetry]_vars
  /\ WF_vars(RetrySlotResolved \/ \E err \in RetryErrors : RetrySlotRejected(err))
  /\ WF_vars(RetryTimerFired)


\* ================================================================ claims
Range(seq) == {seq[i] : i \in 1..Len(seq)}
ScanProcessed == mode = "scan" /\ pc = "delay"
\* The opportunity a settled check produced, as a set (empty for null).
Produced(d) == Range(chk[d].result.value)
Succeeded(d) ==
  /\ Settled(d) /\ Len(chk[d].quotes) = 2
  /\ \A i \in 1..2 : chk[d].quotes[i].st = "ok"

\* C1: when the scan cycle's results have been processed and one direction
\* failed at either hop, the other direction has run to completion (it
\* settled, with both quotes answered or with its own failure), its result
\* was visited by the processing, and the failed direction contributed no
\* opportunity: its result is null and the best opportunity is not its.
C1_DirectionIsolation ==
  ScanProcessed =>
    \A d \in DirSet :
      Failed(d) =>
        /\ Settled(Other(d))
        /\ (Succeeded(Other(d)) \/ Failed(Other(d)))
        /\ Other(d) \in Range(processed)
        /\ (Succeeded(Other(d)) => Produced(Other(d)) # {})
        /\ (\A o \in Produced(Other(d)) :
              o.profitPct >= MIN_PROFIT_PCT => bestOpportunity = <<o>>)
        /\ Produced(d) = {}
        /\ (bestOpportunity # Null => bestOpportunity[1].direction # d)

\* C1 witness: PUMP-TO-DLMM failed, DLMM-TO-PUMP succeeded and is the best.
C1_Witness ==
  /\ ScanProcessed
  /\ Failed(PumpToDLMM) /\ Succeeded(DLMMToPump)
  /\ bestOpportunity # Null /\ bestOpportunity[1].direction = DLMMToPump

\* C2: while the loop awaits, both checks have been started; the results
\* are processed (and the best opportunity selected) only with both checks
\* settled, never with one still in flight.
C2_FullJoin ==
  /\ (mode = "scan" /\ pc = "await") => \A d \in DirSet : chk[d].st # "idle"
  /\ (mode = "scan" /\ processed # << >>) =>
        /\ \A d \in DirSet : Settled(d)
        /\ Range(settleOrder) = DirSet

\* C2 witness: the second check settled before the first, then processing.
C2_Witness ==
  /\ ScanProcessed
  /\ settleOrder = <<DLMMToPump, PumpToDLMM>>
  /\ processed = Dirs

\* The opportunities of a cycle that meet the threshold.
Qualifying == {o \in UNION {Produced(d) : d \in DirSet} :
                 o.profitPct >= MIN_PROFIT_PCT}

\* C3: after processing, the best opportunity is null exactly when no
\* opportunity meets MIN_PROFIT_PCT; otherwise it is a qualifying one, no
\* qualifying one has a greater profitPct, and on equal profitPct it is the
\* PUMP-TO-DLMM one.
C3_BestSelection ==
  ScanProcessed =>
    /\ (bestOpportunity = Null) <=> (Qualifying = {})
    /\ foundOpportunity <=> (Qualifying # {})
    /\ bestOpportunity # Null =>
         LET best == bestOpportunity[1] IN
         /\ best \in Qualifying
         /\ \A o \in Qualifying : o.profitPct <= best.profitPct
         /\ \A o \in Qualifying :
              (o.profitPct = best.profitPct /\ o.direction = PumpToDLMM)
                => best.direction = PumpToDLMM

\* C3 witness: both directions qualify with the same profitPct.
C3_Witness ==
  /\ ScanProcessed
  /\ Cardinality(Qualifying) = 2
  /\ \A o \in Qualifying : o.profitPct = bestOpportunity[1].profitPct
  /\ bestOpportunity[1].direction = PumpToDLMM

\* C4: the bestOpportunity of the market analysis summary is never below
\* MIN_PROFIT_PCT.
C4_AnalysisBestMeetsThreshold ==
  (mode = "analysis" /\ pc = "done" /\ bestOpportunity # Null) =>
    bestOpportunity[1].profitPct >= MIN_PROFIT_PCT

\* C5: every opportunity a check produced has buyAmount = the trade size,
\* sellAmount = the second quote's output, profit = sellAmount - buyAmount,
\* profitPct = profit / buyAmount * 100, and the second quote was asked for
\* the first quote's output amount.
C5_OpportunityRecord ==
  \A d \in DirSet : \A o \in Produced(d) :
    LET q1 == chk[d].quotes[1]
        q2 == chk[d].quotes[2] IN
    /\ o.direction = d
    /\ o.buyAmount = WSOL_TRADE_SIZE
    /\ o.sellAmount = q2.out
    /\ o.profit = o.sellAmount - o.buyAmount
    /\ o.profitPct = ((o.profit * FP) \div o.buyAmount) * 100
    /\ q1.req.inAmount = WSOL_TRADE_SIZE
    /\ q2.req.inAmount = q1.out
    /\ o.firstSwap.inAmount = o.buyAmount
    /\ o.firstSwap.outAmount = q1.out
    /\ o.secondSwap.inAmount = o.firstSwap.outAmount
    /\ o.secondSwap.outAmount = o.sellAmount

\* C5 witness: a check produced an opportunity with a positive profit.
C5_Witness ==
  \E d \in DirSet : \E o \in Produced(d) : o.profit > 0

\* C6: in both directions, on either venue, the first quote scales its input
\* with BASE_MINT's decimals and its output with MINT's, the second quote
\* its input with MINT's decimals and its output with BASE_MINT's.
C6_HopDecimals ==
  \A d \in DirSet : \A i \in 1..Len(chk[d].quotes) :
    LET q == chk[d].quotes[i]
        inMint  == IF i = 1 THEN "BASE_MINT" ELSE "MINT"
        outMint == IF i = 1 THEN "MINT" ELSE "BASE_MINT" IN
    /\ q.req.inMint = inMint /\ q.req.outMint = outMint
    /\ q.req.rawIn = (q.req.inAmount * (10 ^ Decimals(inMint))) \div FP
    /\ q.st = "ok" => q.out = (q.rawOut * FP) \div (10 ^ Decimals(outMint))
    /\ q.req.venue = (IF (d = PumpToDLMM) <=> (i = 1) THEN "pump" ELSE "dlmm")

\* C6 witness: both directions completed both quotes.
C6_Witness == \A d \in DirSet : Succeeded(d)

\* A quote of the cycle failed with a connectivity message.
ConnectivityFailure ==
  \E d \in DirSet : \E i \in 1..Len(chk[d].quotes) :
    chk[d].quotes[i].st = "err" /\ chk[d].quotes[i].connectivity

\* C7: when a quote of the cycle failed with a connectivity error, the loop
\* has built a new connection and made a getSlot call on it by the time the
\* cycle is over.
C7_ReconnectOnConnectivityError ==
  (ScanProcessed /\ ConnectivityFailure) =>
    (connection > 0 /\ getSlotCalls > 0)

\* C8: neither loop ever ends or rejects; its driver is always at the top
\* of the loop, awaiting the cycle, or in the delay; a finished cycle, with
\* or without an error, is followed by the delay; and with iterations left
\* to follow, the loop can always take a further step.
C8_LoopsNeverEnd ==
  mode \in {"scan", "monitor"} =>
    /\ pc \in {"top", "await", "delay"}
    /\ cyclesCompleted > delaysElapsed => pc = "delay"
    /\ cyclesStarted < MaxScans => ENABLED Next

\* C8 witness: the monitor loop awaits a cycle entered after a cycle whose
\* comparison threw.
C8_Witness ==
  /\ mode = "monitor" /\ pc = "await"
  /\ cyclesStarted >= 2 /\ lastCycleFailed /\ monitorLog = MonitorWarning

\* C9: at most one scan cycle is in flight, and each cycle but the first is
\* entered after the previous one completed (both checks settled and
\* processed) and exactly one delay has elapsed since.
C9_OneCycleAtATime ==
  mode = "scan" =>
    /\ scanCount = cyclesStarted
    /\ pc = "await" => /\ cyclesStarted = cyclesCompleted + 1
                       /\ delaysElapsed = cyclesCompleted
                       /\ processed = << >>
    /\ pc = "delay" => /\ cyclesStarted = cyclesCompleted
                       /\ delaysElapsed = cyclesCompleted - 1
                       /\ processed = Dirs
                       /\ \A d \in DirSet : Settled(d)
    /\ pc = "top"   => /\ cyclesStarted = cyclesCompleted
                       /\ delaysElapsed = cyclesCompleted

\* C9 witness: the second cycle runs after a first one that met an error.
C9_Witness ==
  /\ mode = "scan" /\ pc = "await" /\ scanCount = 2
  /\ lastCycleFailed /\ delaysElapsed = 1


\* A call that went to the network (answered or not).
Networked(f) == f.st \in {"net", "ok", "fail"}

\* C10 as claimed: for a successful network fetch a issued at t0, every call
\* b of the same venue issued after a had populated the slot returns a's
\* instance without a network request when issued up to
\* t0 + CACHE_DURATION - 1, and goes to the network when issued at
\* t0 + CACHE_DURATION + 1.
C10_AsClaimed ==
  \A i \in 1..Len(fetches) : \A j \in 1..Len(fetches) :
    LET a == fetches[i]
        b == fetches[j] IN
    (a.st = "ok" /\ b.venue = a.venue /\ i \in b.doneBefore) =>
      /\ b.issued <= a.issued + CACHE_DURATION - 1 =>
           (b.st = "hit" /\ b.instance = a.instance)
      /\ b.issued = a.issued + CACHE_DURATION + 1 => Networked(b)

\* C10, amended: the same for every call b issued while the slot still holds
\* a's descriptor: a hit with the identical instance up to
\* t0 + CACHE_DURATION - 1, a network fetch from t0 + CACHE_DURATION on.
C10_CacheWindow ==
  \A i \in 1..Len(fetches) : \A j \in 1..Len(fetches) :
    LET a == fetches[i]
        b == fetches[j] IN
    (a.st = "ok" /\ b.venue = a.venue /\ b.slotInstance = a.instance) =>
      /\ b.issued >= a.issued
      /\ b.issued <= a.issued + CACHE_DURATION - 1 =>
           (b.st = "hit" /\ b.instance = a.instance)
      /\ b.issued >= a.issued + CACHE_DURATION =>
           (Networked(b) /\ b.instance # a.instance)

\* C10 witness: a fetch at t0 populated the slot, one at
\* t0 + CACHE_DURATION - 1 hit it, one at t0 + CACHE_DURATION + 1 found it
\* expired and went to the network.
C10_Witness ==
  \E i, j, k \in 1..Len(fetches) :
    LET a == fetches[i]
        b == fetches[j]
        c == fetches[k] IN
    /\ a.st = "ok"
    /\ b.slotInstance = a.instance /\ b.venue = a.venue
    /\ b.issued = a.issued + CACHE_DURATION - 1 /\ b.st = "hit"
    /\ c.slotInstance = a.instance /\ c.venue = a.venue
    /\ c.issued = a.issued + CACHE_DURATION + 1 /\ Networked(c)


\* C11: a call that finds a descriptor in the slot and reads a time within
\* CACHE_DURATION of the slot's timestamp returns that descriptor and goes
\* nowhere near the network, whatever address it was given.
C11_HitIgnoresAddress ==
  \A j \in 1..Len(fetches) :
    LET b == fetches[j] IN
    (b.slotInstance # 0 /\ b.issued - b.slotTimestamp < CACHE_DURATION) =>
      /\ b.st = "hit"
      /\ b.instance = b.slotInstance
      /\ fetches[b.instance].st = "ok"

\* C11 witness: a hit for an address other than the cached pool's pubkey.
C11_Witness ==
  \E j \in 1..Len(fetches) :
    /\ fetches[j].st = "hit"
    /\ fetches[j].address # fetches[fetches[j].instance].address
    /\ poolCache[fetches[j].venue][1].pubkey # fetches[j].address


\* A descriptor with every field of the pool record and its address.
FieldNames == {poolAccountSchema[i].name : i \in 1..Len(poolAccountSchema)}
CompleteDescriptor(pool) ==
  /\ DOMAIN pool.fields = FieldNames
  /\ \A f \in KeyFields : Len(pool.fields[f]) = KEY_LEN
  /\ pool.pubkey \in PoolAddresses
  /\ pool.instance \in 1..call.n

SlotWellFormed ==
  IF poolCache["pump"] = Null
    THEN poolCacheTimestamp["pump"] = 0
    ELSE CompleteDescriptor(poolCache["pump"][1])

\* A step that changes the slot or its timestamp is the return of a
\* network fetch, and sets both: the slot to the descriptor returned, the
\* timestamp to the time that call read.
SlotWrittenBySuccessOnly ==
  (poolCache' # poolCache \/ poolCacheTimestamp' # poolCacheTimestamp) =>
     /\ call.pc = "rpc" /\ call'.pc = "returned" /\ call'.network
     /\ poolCache' = [poolCache EXCEPT !["pump"] = call'.result]
     /\ call'.result # Null
     /\ poolCacheTimestamp' =
          [poolCacheTimestamp EXCEPT !["pump"] = call.issued]

\* C12: the slot holds null or a complete descriptor; only a successful
\* fetch writes it, descriptor and timestamp in the same step, so a fetch
\* that fails (no account, decode failure, RPC error) changes neither.
C12_SlotIntegrity == []SlotWellFormed /\ [][SlotWrittenBySuccessOnly]_vars

\* C12 witness: a fetch failed in decoding while the slot held the expired
\* descriptor of an earlier fetch, which is still there.
C12_Witness ==
  /\ call.pc = "threw" /\ call.error = "decode"
  /\ poolCache["pump"] # Null
  /\ poolCache["pump"][1].instance < call.n
  /\ poolCacheTimestamp["pump"] < call.issued


\* Direction d's AMM quote of the current scan asked for the pool and the
\* address held no account.
PoolNotFoundFor(d) == call.caller = CallerOf(d) /\ call.answer = "null"

\* C13: a fetch that went to the ledger (cache empty or expired) and found
\* no account throws "Pool not found" and returns no descriptor; the quote
\* that asked can only fail, its direction settles to null and is absent
\* from the cycle's results, and the loop goes on to the delay and the next
\* cycle.
C13_PoolNotFound ==
  /\ call.answer = "null" =>
       /\ call.network
       /\ call.pc = "threw" /\ call.error = "Pool not found"
       /\ call.result = Null
  /\ \A d \in DirSet : PoolNotFoundFor(d) =>
       /\ InFlight(d) =>
            /\ ~ENABLED (QuoteMayReturn(d) /\ Hop1Return(d))
            /\ ~ENABLED (QuoteMayReturn(d) /\ Hop2Return(d))
            /\ ENABLED (QuoteMayThrow(d) /\ HopThrow(d))
       /\ Settled(d) => (chk[d].result = CheckCatch /\ Failed(d))
       /\ ScanProcessed =>
            /\ \A o \in Range(bestOpportunity) : o.direction # d
            /\ ENABLED DelayElapsed
       /\ (pc = "top" /\ scanCount < MaxScans) => ENABLED StartCycle

\* C13 witness: in the second cycle the cached pool had expired, the
\* address held no account, and the cycle completed without direction d.
C13_Witness ==
  /\ ScanProcessed /\ scanCount = 2
  /\ poolCache["pump"] # Null
  /\ \E d \in DirSet : PoolNotFoundFor(d) /\ chk[d].result.value = Null


\* C14: when the ledger returned an account, the schema decoder ran first;
\* the manual decoder ran exactly when the schema decoder failed; when both
\* failed the call threw, returned no descriptor and did not write the
\* slot; otherwise it returned the pool built from the first decoder that
\* succeeded.
C14_DecodeFallback ==
  call.answer = "account" =>
    LET data   == call.data[1]
        schema == SchemaDecode(data)
        manual == manualDeserializePoolAccount(data) IN
    /\ call.tried # << >> /\ call.tried[1] = "schema"
    /\ (\E i \in 1..Len(call.tried) : call.tried[i] = "manual") <=> ~schema.ok
    /\ Len(call.tried) <= 2
    /\ (~schema.ok /\ ~manual.ok) =>
         /\ call.pc = "threw" /\ call.error = "decode"
         /\ call.result = Null
         /\ \A p \in Range(poolCache["pump"]) : p.instance # call.n
    /\ schema.ok =>
         /\ call.pc = "returned"
         /\ call.result = <<PumpPool(call.n, call.address, schema.account)>>
    /\ (~schema.ok /\ manual.ok) =>
         /\ call.pc = "returned"
         /\ call.result = <<PumpPool(call.n, call.address, manual.account)>>

\* C14 witness: an account too short for either decoder: both ran, the
\* call threw.
C14_Witness ==
  /\ call.answer = "account"
  /\ call.tried = <<"schema", "manual">>
  /\ call.pc = "threw"
  /\ ~manualDeserializePoolAccount(call.data[1]).ok


\* The account data the ledger returned to the call, as a set.
AnsweredData == IF call.answer = "account" THEN {call.data[1]} ELSE {}

\* C15 as claimed: on a record of 213 bytes after the discriminator both
\* decoders succeed and agree on every field.
C15_AsClaimed ==
  \A data \in AnsweredData :
    Len(data) = DISCRIMINATOR + 213 =>
      LET schema == SchemaDecode(data)
          manual == manualDeserializePoolAccount(data) IN
      /\ schema.ok /\ manual.ok
      /\ \A f \in FieldNames : schema.account[f] = manual.account[f]

\* C15, amended: on a record of 235 bytes after the discriminator both
\* decoders succeed and give the same value for each of the ten fields.
C15_DecodersAgree ==
  \A data \in AnsweredData :
    Len(data) = DISCRIMINATOR + 235 =>
      LET schema == SchemaDecode(data)
          manual == manualDeserializePoolAccount(data) IN
      /\ schema.ok /\ manual.ok
      /\ DOMAIN schema.account = FieldNames
      /\ DOMAIN manual.account = FieldNames
      /\ \A f \in FieldNames : schema.account[f] = manual.account[f]

\* C15 witness: a full record was fetched and decoded by the schema decoder.
C15_Witness ==
  /\ call.pc = "returned" /\ call.tried = <<"schema">>
  /\ \E data \in AnsweredData :
       /\ Len(data) = DISCRIMINATOR + 235
       /\ manualDeserializePoolAccount(data).ok
       /\ call.result[1].fields.coin_creator =
            manualDeserializePoolAccount(data).account.coin_creator

\* C16 as claimed: the last field ends at offset 213 after the
\* discriminator.
C16_AsClaimed ==
  \A data \in AnsweredData :
    /\ manualDeserializePoolAccount(data).ok =>
         manualDeserializePoolAccount(data).end = 213
    /\ SchemaDecode(data).ok => SchemaDecode(data).end = 213

\* C16, amended: u8 + u16 + six 32-byte keys + u64 + a 32-byte key end at
\* offset 235 after the discriminator, in the manual decoder and in the
\* schema alike; a record shorter than that is not decoded by the schema.
C16_RecordLength ==
  \A data \in AnsweredData :
    /\ manualDeserializePoolAccount(data).ok =>
         manualDeserializePoolAccount(data).end = 235
    /\ SchemaDecode(data).ok <=> Len(data) >= DISCRIMINATOR + 235
    /\ SchemaDecode(data).ok => SchemaDecode(data).end = 235

\* C16 witness: a record of exactly that length, read to its last byte by
\* both decoders.
C16_Witness ==
  \E data \in AnsweredData :
    /\ SchemaDecode(data).ok
    /\ SchemaDecode(data).end = Len(data) - DISCRIMINATOR
    /\ manualDeserializePoolAccount(data).ok
    /\ manualDeserializePoolAccount(data).end = Len(data) - DISCRIMINATOR


\* C17: a getTokenDecimals call whose supply query failed returned 9, and
\* no call ever ends by throwing; a quote waiting for such a call goes on
\* with 9 as the mint's decimals, and a quote that throws does so only at
\* the SDK step, with both decimals in hand.
C17_DecimalsFallback ==
  /\ \A i \in 1..Len(decimalsCalls) :
       LET c == decimalsCalls[i] IN
       /\ c.st \in {"rpc", "hit", "ok", "fallback"}
       /\ c.st = "fallback" => c.value = <<9>>
       /\ c.st = "ok" => c.value = <<Decimals(c.mint)>>
  /\ (dquote.pc = "in" /\ decimalsCalls[dquote.waiting].st = "fallback")
       => ENABLED QuoteInputDecimals
  /\ (dquote.pc = "out" /\ decimalsCalls[dquote.waiting].st = "fallback")
       => ENABLED QuoteOutputDecimals
  /\ dquote.pc = "sdk" => (ENABLED QuoteSdkReturns /\ dquote.outDecimals # Null)
  /\ dquote.pc \in {"out", "sdk", "returned", "threw"}
       => dquote.inDecimals # Null
  /\ dquote.pc \in {"returned", "threw"} => dquote.outDecimals # Null

\* C17 witness: a quote returned although the lookup of its input mint
\* failed and gave 9.
C17_Witness ==
  /\ dquote.pc = "returned"
  /\ dquote.inDecimals = <<9>>
  /\ \E i \in 1..Len(decimalsCalls) :
       /\ decimalsCalls[i].caller = "quote"
       /\ decimalsCalls[i].mint = InputMint(dquote.direction)
       /\ decimalsCalls[i].st = "fallback"

\* An entry of the decimals cache, once set, stays as it is.
DecimalsEntryKept ==
  \A v \in Venues : \A mint \in Mints :
    decimalsCache[v][mint] # Null =>
      decimalsCache'[v][mint] = decimalsCache[v][mint]

\* C18: after a call fetched a mint's decimals, every call for that mint in
\* the same module issued later returns that value from the cache, with no
\* query; and a cached entry is never changed or removed.
C18_DecimalsCached ==
  /\ [](\A i \in 1..Len(decimalsCalls) : \A j \in 1..Len(decimalsCalls) :
         LET a == decimalsCalls[i]
             b == decimalsCalls[j] IN
         (a.st = "ok" /\ i \in b.doneBefore
            /\ b.venue = a.venue /\ b.mint = a.mint) =>
           (b.st = "hit" /\ b.value = a.value))
  /\ [][DecimalsEntryKept]_vars

\* C18 witness: a fetched value served again from the cache, in the module
\* that fetched it, while the other module's cache has no entry for it.
C18_Witness ==
  \E i \in 1..Len(decimalsCalls) : \E j \in 1..Len(decimalsCalls) :
    /\ decimalsCalls[i].st = "ok" /\ decimalsCalls[j].st = "hit"
    /\ i \in decimalsCalls[j].doneBefore
    /\ decimalsCalls[j].venue = decimalsCalls[i].venue
    /\ decimalsCalls[j].mint = decimalsCalls[i].mint
    /\ decimalsCalls[j].value = <<Decimals(decimalsCalls[i].mint)>>


\* C19: the raw input is floor(x * 10^d) and never stands for more than the
\* amount x: raw <= x * 10^d < raw + 1, with x = m * 2^e and e < 0.
C19_FloorNeverExceeds ==
  (conv.pc = "done" /\ conv.kind = "amount") =>
    LET scale == Pow2(0 - conv.amount.e)
        exact == conv.amount.m * (10 ^ conv.decimals) IN
    /\ conv.rawIn * scale <= exact
    /\ exact < (conv.rawIn + 1) * scale

\* C20: the slippage handed to the SDK is floor(slippage * 100) of the
\* caller's fraction: bps <= slippage * 100 < bps + 1.
C20_SlippageTimes100 ==
  (conv.pc = "done" /\ conv.kind = "slippage") =>
    LET bps == conv.request[1].slippage IN
    /\ conv.request[1].sdkFn = "swapQuote"
    /\ bps * FP <= conv.slippage * 100
    /\ conv.slippage * 100 < (bps + 1) * FP

\* C20 witness: getDLMMReversePrice called with 0.005, as the evaluator
\* does, hands the SDK floor(0.5) = 0.
C20_Witness ==
  /\ conv.pc = "done" /\ conv.kind = "slippage"
  /\ conv.fn = "getDLMMReversePrice"
  /\ conv.slippage = DLMM_SLIPPAGE
  /\ conv.request[1].slippage = 0


\* The venue a price function belongs to, and the failures each awaited
\* step can end with.
VenueNameOf(fn) ==
  IF fn \in {"getDLMMPrice", "getDLMMReversePrice"} THEN "DLMM" ELSE "PumpSwap"
CausesOf(kind) ==
  IF kind = "fetchPoolData" THEN {"Pool not found", "rpc", "decode"}
  ELSE IF kind = "sdkQuote" THEN {"sdk"}
  ELSE IF kind = "invalidDirection" THEN {"Invalid swap direction"}
  ELSE {kind}

AdapterCallWellFormed ==
  /\ adapter.sdkCalls <= 1
  /\ adapter.fetchCalls <= 1
  /\ adapter.pc = "threw" =>
       /\ adapter.error # Null
       /\ adapter.error[1].context.venue = VenueNameOf(adapter.fn)
       /\ adapter.error[1].cause \in CausesOf(StepKind(adapter))
  /\ adapter.pc \in {"running", "returned"} => adapter.error = Null

\* A failed pool fetch or SDK call ends the call with the wrapped error,
\* and a call that has thrown does nothing more.
AdapterFailureEndsCall ==
  /\ (AtStep("fetchPoolData") /\ call.pc = "threw" /\ adapter' # adapter) =>
       /\ adapter'.n = adapter.n /\ adapter'.pc = "threw"
       /\ adapter'.error[1].cause = call.error
       /\ call' = call
  /\ (AtStep("sdkQuote") /\ adapter'.n = adapter.n
        /\ adapter'.pc = "threw") =>
       (adapter'.sdkCalls = 1 /\ adapter'.error[1].cause = "sdk")
  /\ (adapter.pc \in {"threw", "returned"} /\ adapter' # adapter) =>
       (adapter'.n = adapter.n + 1 /\ adapter'.sdkCalls = 0)

\* C21: a price-function call invokes the SDK's quote function at most once
\* and fetches the pool at most once; when the pool fetch or the SDK call
\* fails, the call ends by throwing an error that names the venue and
\* carries the underlying message, and nothing is tried again.
C21_WrapNoRetry ==
  []AdapterCallWellFormed /\ [][AdapterFailureEndsCall]_vars

\* C21 witness: a second call whose pool fetch found no account has thrown
\* the wrapped error without reaching the SDK.
C21_Witness ==
  /\ adapter.n = 2 /\ adapter.pc = "threw"
  /\ adapter.fn = "getPumpSwapPriceFixed"
  /\ adapter.error[1].cause = "Pool not found"
  /\ adapter.sdkCalls = 0 /\ adapter.fetchCalls = 1


\* Price impact in per cent from what the pool's current price would give
\* and what the quote gives.
ExpectedVsActual(expected, actual) ==
  ((expected - actual) * 100 * FP) \div expected

\* The price impact in the record a quote function returned.
ReportedImpact ==
  IF conv.fn \in {"getDLMMSwapQuote:buy", "getDLMMSwapQuote:sell"}
    THEN conv.reply[1].priceImpact
    ELSE conv.reply[1].priceImpactPct

\* C22: a quote whose SDK answer carries no price impact reports the impact
\* computed from expected and actual output, never a default of zero.
C22_ImpactComputedWhenAbsent ==
  (conv.pc = "done" /\ conv.kind = "impact"
     /\ conv.sdkQuote[1].priceImpact = Null) =>
    ReportedImpact =
      ExpectedVsActual(conv.sdkQuote[1].spotOut, conv.sdkQuote[1].outAmount)


\* Whether (1 + binStep/10000) ^ k is positive, from the sign of the base.
FormulaPositive(binStep, k) ==
  LET base == 10000 + binStep IN
  \/ base > 0
  \/ base = 0 /\ k <= 0
  \/ base < 0 /\ k % 2 = 0

\* price = (num / den) equals (base / 10000) ^ k, for |k| <= 2.
PriceIsFormula(price, binStep, k) ==
  LET base == 10000 + binStep IN
  /\ k = 0 => price.num = price.den
  /\ k = 1 => price.num * 10000 = price.den * base
  /\ k = 0 - 1 => price.num * base = price.den * 10000
  /\ k = 2 => price.num = base * base /\ price.den = 10000 * 10000
  /\ k = 0 - 2 => price.num = 10000 * 10000 /\ price.den = base * base

\* C23: in a returned snapshot every bin is priced
\* (1 + binStep/10000) ^ (binId - activeId), the active bin at 1; with
\* binStep 10 and active bin 100, bin 101 is priced 1.001 and bin 99
\* 1/1.001; the snapshot holds, in the SDK's order, exactly the bins whose
\* price by the formula is positive.
C23_BinPriceFormula ==
  snapshot.pc = "returned" =>
    LET pool == snapshot.pool[1]
        r == snapshot.result[1]
        kept == SelectSeq(snapshot.sdkBins, LAMBDA b :
                  FormulaPositive(pool.binStep, b.binId - pool.activeId)) IN
    /\ r.activeBinId = pool.activeId
    /\ Len(r.bins) = Len(kept)
    /\ \A i \in 1..Len(r.bins) :
         /\ r.bins[i].binId = kept[i].binId
         /\ r.bins[i].price.num > 0
         /\ PriceIsFormula(r.bins[i].price, pool.binStep,
                           r.bins[i].binId - r.activeBinId)
         /\ (pool.binStep = 10 /\ r.activeBinId = 100) =>
              /\ r.bins[i].binId = 101 =>
                   r.bins[i].price = [num |-> 10010, den |-> 10000]
              /\ r.bins[i].binId = 99 =>
                   r.bins[i].price = [num |-> 10000, den |-> 10010]

\* C23 witness: binStep 10, active bin 100, one bin asked for on each side:
\* the snapshot holds bins 99, 100 and 101.
C23_Witness ==
  /\ snapshot.pc = "returned"
  /\ snapshot.pool[1] = [binStep |-> 10, activeId |-> 100]
  /\ Len(snapshot.result[1].bins) = 3
  /\ snapshot.result[1].bins[1].binId = 99
  /\ snapshot.result[1].bins[3].binId = 101


\* The comparison's quotes: one per venue, each for one whole unit of the
\* base asset into the target asset; in monitor mode no direction check
\* (two-hop chain) runs.
CmpUnitQuotes ==
  cmp.st # "idle" =>
    /\ DOMAIN cmp.quotes = Venues
    /\ \A v \in Venues :
         /\ cmp.quotes[v].req.venue = v
         /\ cmp.quotes[v].req.inAmount = FP
         /\ cmp.quotes[v].req.rawIn = 10 ^ Decimals("BASE_MINT")
         /\ cmp.quotes[v].req.inMint = "BASE_MINT"
         /\ cmp.quotes[v].req.outMint = "MINT"
    /\ mode = "monitor" => \A d \in DirSet : chk[d] = IdleCheck

\* C24 as stated: the price reported for a venue is the output token amount
\* per unit of base.
C24_AsClaimed ==
  /\ CmpUnitQuotes
  /\ cmp.st = "ok" =>
       /\ cmp.value[1].pumpPrice = cmp.quotes["pump"].out
       /\ cmp.value[1].dlmmPrice = cmp.quotes["dlmm"].out

\* price is 1 / tokens on the fixed-point scale.
IsReciprocal(price, tokens) ==
  price * tokens <= FP * FP /\ FP * FP < (price + 1) * tokens

\* C24: the comparison issues one quote per venue, for one unit of base into
\* the target asset, with no second hop; the price it reports for a venue
\* is the reciprocal of the output token amount (base per token).
C24_ReciprocalPrice ==
  /\ CmpUnitQuotes
  /\ cmp.st = "ok" =>
       /\ IsReciprocal(cmp.value[1].pumpPrice, cmp.quotes["pump"].out)
       /\ IsReciprocal(cmp.value[1].dlmmPrice, cmp.quotes["dlmm"].out)

\* C24 witness: in monitor mode the comparison resolved with 25 tokens per
\* unit on one venue and 26 on the other.
C24_Witness ==
  /\ mode = "monitor" /\ cmp.st = "ok"
  /\ cmp.quotes["pump"].out = 25 * FP
  /\ cmp.quotes["dlmm"].out = 26 * FP
  /\ cmp.value[1].pumpPrice = 400


\* C25: in monitor mode a cycle whose comparison resolved has logged both
\* prices and the spread, whatever the spread; the 'above threshold' line is
\* there exactly when the spread exceeds MIN_PROFIT_PCT.
C25_MonitorLogsUngated ==
  (mode = "monitor" /\ pc = "delay" /\ cmp.st = "ok") =>
    LET c == cmp.value[1]
        labels == {monitorLog[i].label : i \in 1..Len(monitorLog)} IN
    /\ Line("PumpSwap", c.pumpPrice) \in Range(monitorLog)
    /\ Line("Meteora", c.dlmmPrice) \in Range(monitorLog)
    /\ Line("Spread", c.priceDifferencePct) \in Range(monitorLog)
    /\ "Spread above threshold" \in labels
         <=> c.priceDifferencePct > MIN_PROFIT_PCT

\* C25 witness: a comparison with no spread at all was logged, without the
\* 'above threshold' line.
C25_Witness ==
  /\ mode = "monitor" /\ pc = "delay" /\ cmp.st = "ok"
  /\ cmp.value[1].priceDifferencePct = 0
  /\ Len(monitorLog) = 4
  /\ monitorLog[4] = Line("Spread", 0)


\* C26: the scan loop is entered only when no initialization step failed
\* fatally and every required setting is present; a failed liveness test,
\* wallet load, pool-balance read or configuration validation has ended the
\* process with a non-zero status, the loop never entered.
C26_InitFailureIsFatal ==
  /\ proc.loop =>
       /\ proc.failed \subseteq SwallowedSteps
       /\ EnvNames \subseteq proc.env
       /\ proc.exit = Null
  /\ (proc.started = "scan" /\ ~(proc.failed \subseteq SwallowedSteps)) =>
       /\ proc.pc = "exited" /\ proc.exit # Null /\ proc.exit[1] # 0
       /\ ~proc.loop
  /\ (proc.started = "scan" /\ ~(EnvNames \subseteq proc.env)) => ~proc.loop
  /\ proc.pc = "exited" => proc.exit[1] # 0

\* C26 witness: with MINT absent the pool-configuration validation failed
\* and the process exited with status 1.
C26_Witness ==
  /\ proc.started = "scan" /\ "MINT" \notin proc.env
  /\ "validatePumpConfig" \in proc.failed
  /\ proc.exit = <<1>> /\ ~proc.loop

\* Two strings are equal up to the case of their letters.
EqIgnoreCase(a, b) ==
  /\ Len(a) = Len(b)
  /\ \A i \in 1..Len(a) :
       \/ a[i] = b[i]
       \/ \E k \in 1..Len(UpperCase) :
            {a[i], b[i]} = {UpperCase[k], LowerCase[k]}
Matches(labels) ==
  \E label \in labels : EqIgnoreCase(ModeArg(proc.argv), label)

\* C27: once main has dispatched, the mode started is the one the first
\* argument names whatever its case, scan when there is no argument; an
\* argument naming no mode has printed the usage text and ended the process
\* with a non-zero status, no mode started.
C27_Dispatch ==
  proc.dispatched =>
    /\ (Len(proc.argv) = 0 \/ Matches(ScanLabels)) <=> proc.started = "scan"
    /\ Matches(MonitorLabels) <=> proc.started = "monitor"
    /\ Matches(AnalysisLabels) <=> proc.started = "analysis"
    /\ ~(Matches(ScanLabels) \/ Matches(MonitorLabels)
           \/ Matches(AnalysisLabels) \/ Matches(HelpLabels)) =>
         /\ proc.usage /\ proc.started = "none" /\ ~proc.loop
         /\ proc.pc = "exited" /\ proc.exit # Null /\ proc.exit[1] # 0

\* C27 witness: started with the argument "scans", the process printed the
\* usage text and exited with status 1.
C27_Witness ==
  /\ proc.dispatched /\ proc.argv = << <<"s", "c", "a", "n", "s">> >>
  /\ proc.usage /\ proc.exit = <<1>> /\ proc.started = "none"


\* Call j was issued while call i, for the same mint in the same module,
\* was still waiting for its query, and no query for that mint had
\* succeeded before.
OverlappingMisses(i, j) ==
  /\ i < j
  /\ decimalsCalls[i].venue = decimalsCalls[j].venue
  /\ decimalsCalls[i].mint = decimalsCalls[j].mint
  /\ i \notin decimalsCalls[j].doneBefore
  /\ \A k \in decimalsCalls[j].doneBefore :
       ~(/\ decimalsCalls[k].venue = decimalsCalls[j].venue
         /\ decimalsCalls[k].mint = decimalsCalls[j].mint
         /\ decimalsCalls[k].st = "ok")

\* C28: of two overlapping getTokenDecimals calls for the same uncached
\* mint, the second issues its own supply query; a call waiting for its
\* query can complete whatever the state of the other; once both queries
\* succeeded the cache holds the mint's decimals.
C28_NoCoalescing ==
  /\ \A i, j \in 1..Len(decimalsCalls) :
       OverlappingMisses(i, j) =>
         /\ decimalsCalls[i].st \in {"rpc", "ok", "fallback"}
         /\ decimalsCalls[j].st \in {"rpc", "ok", "fallback"}
         /\ (decimalsCalls[i].st = "ok" /\ decimalsCalls[j].st = "ok") =>
              decimalsCache[decimalsCalls[j].venue][decimalsCalls[j].mint]
                = <<Decimals(decimalsCalls[j].mint)>>
  /\ \A j \in 1..Len(decimalsCalls) :
       decimalsCalls[j].st = "rpc" =>
         /\ ENABLED GetTokenSupplyResolved(j)
         /\ ENABLED GetTokenSupplyRejected(j)

\* C28 witness: the second of two overlapping misses has its answer while
\* the first is still waiting for its own.
C28_Witness ==
  \E i, j \in 1..Len(decimalsCalls) :
    /\ OverlappingMisses(i, j)
    /\ decimalsCalls[i].st = "rpc"
    /\ decimalsCalls[j].st = "ok"
    /\ decimalsCache[decimalsCalls[j].venue][decimalsCalls[j].mint] # Null


\* A direction's second quote exists only next to a first quote that
\* returned, and asks for that quote's output; a first quote that threw
\* ended the check with null.
SecondHopAfterFirst ==
  \A d \in DirSet :
    /\ Len(chk[d].quotes) <= 2
    /\ Len(chk[d].quotes) = 2 =>
         /\ chk[d].quotes[1].st = "ok"
         /\ chk[d].quotes[2].req.inAmount = chk[d].quotes[1].out
         /\ chk[d].quotes[2].req.venue # chk[d].quotes[1].req.venue
    /\ (Len(chk[d].quotes) >= 1 /\ chk[d].quotes[1].st = "err") =>
         /\ Len(chk[d].quotes) = 1
         /\ chk[d].st = "done"
         /\ chk[d].result = [status |-> "fulfilled", value |-> Null]

\* The second quote is requested in the step in which the first returns.
SecondHopRequestedOnReturn ==
  \A d \in DirSet :
    (Len(chk[d].quotes) = 1 /\ Len(chk'[d].quotes) = 2) =>
      /\ chk[d].quotes[1].st = "pending"
      /\ chk'[d].quotes[1].st = "ok"
      /\ chk'[d].quotes[2].st = "pending"

\* C29: within a direction evaluation the second hop's quote is requested
\* only after the first hop's quote returned; when the first hop fails no
\* second quote is requested for that direction in that cycle.
C29_HopOrder ==
  []SecondHopAfterFirst /\ [][SecondHopRequestedOnReturn]_vars

\* C29 witness: in one cycle the first hop of one direction threw and the
\* check ended without a second quote, while the other direction has both.
C29_Witness ==
  /\ mode = "scan"
  /\ Len(chk[PumpToDLMM].quotes) = 1
  /\ chk[PumpToDLMM].quotes[1].st = "err"
  /\ chk[PumpToDLMM].st = "done"
  /\ Len(chk[DLMMToPump].quotes) = 2
  /\ chk[DLMMToPump].quotes[2].st = "ok"


C31_TimestampNeverDecreases ==
  [][\A v \in Venues : poolCacheTimestamp'[v] >= poolCacheTimestamp[v]]_vars

\* A step in which a call ends with the fallback.
FallbackReturned ==
  \E id \in 1..Len(decimalsCalls) :
    /\ decimalsCalls[id].st = "rpc"
    /\ id \in 1..Len(decimalsCalls') /\ decimalsCalls'[id].st = "fallback"

\* The calls of venue v for mint that had succeeded before call j was made.
SucceededBefore(j) ==
  {i \in decimalsCalls[j].doneBefore :
     /\ decimalsCalls[i].venue = decimalsCalls[j].venue
     /\ decimalsCalls[i].mint = decimalsCalls[j].mint
     /\ decimalsCalls[i].st = "ok"}

C33_ChecksNeverReject ==
  /\ \A d \in DirSet :
       /\ chk[d].result.status \in {"pending", "fulfilled"}
       /\ Settled(d) => chk[d].result.status = "fulfilled"
       /\ (Settled(d) /\ Failed(d)) =>
            (chk[d].result.value = Null /\ chk[d].warned)
       /\ (Settled(d) /\ ~Failed(d)) =>
            (chk[d].result.value # Null /\ ~chk[d].warned)
  /\ (mode = "scan" /\ JoinReady) =>
       \A i \in 1..Len(AllSettledResults) :
         ~RejectedBranchTaken(AllSettledResults[i])

\* C33 witness: in one cycle the first hop of one check failed and the
\* second hop of the other, and the loop went on past its await with both
\* results fulfilled.
C33_Witness ==
  /\ mode = "scan" /\ pc = "delay"
  /\ \E d \in DirSet :
       /\ Len(chk[d].quotes) = 1 /\ chk[d].quotes[1].st = "err"
       /\ Len(chk[Other(d)].quotes) = 2 /\ chk[Other(d)].quotes[2].st = "err"
  /\ \A d \in DirSet : chk[d].result = [status |-> "fulfilled", value |-> Null]

\* C34: in every opportunity a check returned, the slippageBps recorded
\* for the bin-venue swap is the slippage its quote passed to swapQuote.
C34_RecordedSlippageIsPassed ==
  \A d \in DirSet :
    (Settled(d) /\ chk[d].result.value # Null) =>
      LET opp == chk[d].result.value[1]
          hop == IF d = PumpToDLMM THEN 2 ELSE 1
          swap == IF hop = 1 THEN opp.firstSwap ELSE opp.secondSwap
          q == chk[d].quotes[hop] IN
      /\ q.req.venue = "dlmm"
      /\ swap.slippageBps = q.req.slippage

\* C35: the AMM quote of the price comparison and the first quote of the
\* PUMP-TO-DLMM check, both base token into target token, are requested
\* with the same SDK function, direction tag and input / output decimals.
C35_SameAmmRequest ==
  (cmp.st # "idle" /\ chk[PumpToDLMM].st # "idle") =>
    LET a == cmp.quotes["pump"].req
        b == chk[PumpToDLMM].quotes[1].req IN
    /\ a.inMint = b.inMint /\ a.outMint = b.outMint
    /\ Decimals(a.inMint) = Decimals(b.inMint)
    /\ Decimals(a.outMint) = Decimals(b.outMint)
    /\ a.sdkFn = b.sdkFn
    /\ a.tag = b.tag

\* C36: the analysis rejects exactly on a failed price comparison, whatever
\* the checks gave, and never resolves after one; with the comparison
\* succeeded it resolves however many checks came back null, and what it
\* returns holds the opportunity of each check that succeeded, the best of
\* them as bestOpportunity.
C36_AnalysisRejectsOnComparisonOnly ==
  mode = "analysis" =>
    /\ pc = "rejected" => cmp.st = "err"
    /\ cmp.st = "err" =>
         /\ pc \in {"await", "rejected"}
         /\ pc = "await" => ENABLED AnalysisReject
         /\ ~ENABLED AnalysisResolve
    /\ (pc = "await" /\ cmp.st = "ok" /\ \A d \in DirSet : Settled(d))
         => (ENABLED AnalysisResolve /\ ~ENABLED AnalysisReject)
    /\ pc = "done" =>
         /\ cmp.st = "ok"
         /\ \A i \in 1..Len(Dirs) :
              AnalysisOpportunities[i] = Null <=> Failed(Dirs[i])
         /\ \A d \in DirSet :
              (~Failed(d) /\ Failed(Other(d)))
                => bestOpportunity = chk[d].result.value

\* C36 witness: the analysis rejected although both checks had returned an
\* opportunity.
C36_Witness ==
  /\ mode = "analysis" /\ pc = "rejected" /\ cmp.st = "err"
  /\ \A d \in DirSet : Settled(d) /\ chk[d].result.value # Null

\* The first fetchPoolData of the venue made after the clear numbered c.
NextFetchAfter(c) ==
  {j \in (c + 1)..Len(fetches) :
     /\ fetches[j].venue = fetches[c].venue
     /\ fetches[j].st # "clear"
     /\ \A k \in (c + 1)..(j - 1) : fetches[k].venue # fetches[c].venue}

\* A step that clears a venue's cache.
ClearStep ==
  /\ Len(fetches') = Len(fetches) + 1
  /\ fetches'[Len(fetches')].st = "clear"

\* C37: the fetchPoolData that follows a clear of its venue goes to the
\* network, whatever the clock says; and a clear changes neither the other
\* venue's slot and timestamp nor the decimals caches.
C37_ClearForcesFetch ==
  /\ [](\A c \in 1..Len(fetches) :
          fetches[c].st = "clear" =>
            \A j \in NextFetchAfter(c) : fetches[j].st # "hit")
  /\ [][ClearStep =>
          LET v == fetches'[Len(fetches')].venue IN
          /\ poolCache'[v] = Null
          /\ \A w \in Venues \ {v} :
               /\ poolCache'[w] = poolCache[w]
               /\ poolCacheTimestamp'[w] = poolCacheTimestamp[w]
          /\ decimalsCache' = decimalsCache]_vars

\* The number of waits a call has made after f failed attempts.
WaitsAfter(f, maxRetries) ==
  IF f < maxRetries THEN f ELSE IF maxRetries = 0 THEN 0 ELSE maxRetries - 1

\* What holds of a call of getConnectionWithRetry at every moment.
RetryWellFormed ==
  retry.pc # "idle" =>
    /\ retry.attempts <= retry.maxRetries
    /\ retry.failed <= retry.attempts
    /\ retry.pc = "slot" => retry.attempts = retry.failed + 1
    /\ retry.pc = "wait" =>
         (retry.attempts = retry.failed /\ retry.failed < retry.maxRetries)
    /\ retry.pc = "returned" =>
         /\ retry.attempts = retry.failed + 1
         /\ retry.result = <<retry.built>>
    /\ retry.pc = "threw" =>
         /\ retry.failed = retry.maxRetries
         /\ retry.attempts = retry.maxRetries
         /\ retry.result = Null
    /\ Len(retry.waits) = WaitsAfter(retry.failed, retry.maxRetries)
    /\ \A k \in 1..Len(retry.waits) : retry.waits[k] = (2 ^ (k - 1)) * 1000

\* Once a call has returned or thrown, it makes no further attempt.
RetryEndsCall ==
  (retry.pc \in {"returned", "threw"} /\ retry'.calls = retry.calls)
    => retry' = retry

\* C38: a call makes at most maxRetries attempts, returns the connection
\* of the first attempt whose getSlot succeeds and attempts nothing after
\* it, has waited 2^i seconds after failed attempt i but not after the
\* last one, throws when maxRetries attempts have failed, and ends.
C38_BoundedRetry ==
  /\ []RetryWellFormed
  /\ [][RetryEndsCall]_vars
  /\ (retry.pc \in {"slot", "wait"}) ~> (retry.pc \in {"returned", "threw"})

\* C38 witness: a call with maxRetries = 3 returned the connection of its
\* third attempt after waiting 1 s and 2 s.
C38_Witness ==
  /\ retry.pc = "returned" /\ retry.maxRetries = 3
  /\ retry.attempts = 3 /\ retry.failed = 2
  /\ retry.waits = <<1000, 2000>>

====
